---------------------------- MODULE Spec2Model ----------------------------
(***************************************************************************)
(* DNS Sentinel (om_apex_mcp/tools/dns_sentinel.py): the policy matcher,   *)
(* the auto-heal classifier and applicator, the audit and heal runs and    *)
(* the approval workflow, over the Supabase tables and the Cloudflare API. *)
(*                                                                         *)
(* Python values: a dict is a TLA+ record (a key that is absent is absent  *)
(* from the record's DOMAIN), a list is a sequence, None is the value      *)
(* None, a str that the code takes apart (record names and contents) is a  *)
(* sequence of one-character strings, a str that the code only compares    *)
(* (ids, verbs, record types, statuses, domains) is a TLA+ string.         *)
(***************************************************************************)
EXTENDS Integers, Sequences, FiniteSets, TLC

(***************************************************************************)
(* Bounds of the model.                                                    *)
(***************************************************************************)
\* handler calls in one behaviour
MaxCalls == 2
\* calls to Cloudflare or to the store that fail within one handler call
MaxFaults == 1

(***************************************************************************)
(* Python helpers.                                                         *)
(***************************************************************************)
None == [none |-> TRUE]

\* d.get(k, default)
Get(d, k, default) == IF k \in DOMAIN d THEN d[k] ELSE default

\* x or {}   (None and {} are both falsy)
EmptyDict == <<>>
OrEmpty(x) == IF x = None THEN EmptyDict ELSE x

\* truthiness of a dict-or-None value
TruthyDict(x) == x # None /\ DOMAIN x # {}

\* sub in s
Contains(sub, s) ==
    \E i \in 0..(Len(s) - Len(sub)) : SubSeq(s, i + 1, i + Len(sub)) = sub

\* s.startswith(p)
StartsWith(s, p) == Len(p) <= Len(s) /\ SubSeq(s, 1, Len(p)) = p

\* s.count(".")
CountDots(s) == Cardinality({i \in 1..Len(s) : s[i] = "."})

\* str.lower() / str.upper() on the alphabet of the model
LowerChar(c) == CASE c = "A" -> "a" [] c = "O" -> "o" [] OTHER -> c
Lower(s) == [i \in 1..Len(s) |-> LowerChar(s[i])]
Upper(t) == CASE t = "txt" -> "TXT" [] t = "caa" -> "CAA" [] t = "mx" -> "MX"
              [] t = "a" -> "A" [] t = "cname" -> "CNAME" [] OTHER -> t

Quote == "\""
QSQ == <<Quote, " ", Quote>>

\* s.replace('" "', "")  (left to right, non-overlapping)
RECURSIVE ReplaceQSQ(_)
ReplaceQSQ(s) ==
    IF Len(s) = 0 THEN s
    ELSE IF StartsWith(s, QSQ) THEN ReplaceQSQ(SubSeq(s, 4, Len(s)))
    ELSE <<s[1]>> \o ReplaceQSQ(Tail(s))

\* s.strip('"')
RECURSIVE LStripQ(_)
LStripQ(s) == IF Len(s) > 0 /\ s[1] = Quote THEN LStripQ(Tail(s)) ELSE s
RECURSIVE RStripQ(_)
RStripQ(s) ==
    IF Len(s) > 0 /\ s[Len(s)] = Quote THEN RStripQ(SubSeq(s, 1, Len(s) - 1)) ELSE s
\* s.strip('"') taking one quote from each end only
StripOneQ(s) ==
    LET l == IF Len(s) > 0 /\ s[1] = Quote THEN Tail(s) ELSE s
    IN  IF Len(l) > 0 /\ l[Len(l)] = Quote THEN SubSeq(l, 1, Len(l) - 1) ELSE l
StripQ(s) == RStripQ(LStripQ(s))

(***************************************************************************)
(* _check_record_policy and its nested helpers.                            *)
(***************************************************************************)
_normalize_content(record) ==
    LET content == Get(record, "content", <<>>)
    IN  IF Upper(Get(record, "type", "")) = "TXT" /\ StartsWith(content, <<Quote>>)
        THEN StripQ(ReplaceQSQ(content))
        ELSE content

\* _rec_name_matches_rule without lower()
_rec_name_matches_exact_case(rec_name, rule_name) ==
    IF rule_name = <<"@">>
    THEN rec_name = <<"@">> \/ CountDots(rec_name) <= 1
    ELSE Contains(rule_name, rec_name)

_rec_name_matches_rule(rec_name, rule_name) ==
    LET rn == Lower(rec_name)
        rn_rule == Lower(rule_name)
    IN  IF rn_rule = <<"@">>
        THEN rn = <<"@">> \/ CountDots(rn) <= 1
        ELSE Contains(rn_rule, rn)

\* matches_record without its proxied clause
matches_record_any_proxy(record, rule) ==
    LET content == _normalize_content(record)
    IN  /\ ("type" \in DOMAIN rule => Upper(Get(record, "type", "")) = Upper(rule.type))
        /\ ("name" \in DOMAIN rule =>
                _rec_name_matches_rule(Get(record, "name", <<>>), rule.name))
        /\ ("content" \in DOMAIN rule => content = rule.content)
        /\ ("content_contains" \in DOMAIN rule => Contains(rule.content_contains, content))
        /\ ("content_startswith" \in DOMAIN rule =>
                StartsWith(content, rule.content_startswith))
        /\ ("content_contains_any" \in DOMAIN rule =>
                \E k \in 1..Len(rule.content_contains_any) :
                    Contains(rule.content_contains_any[k], content))

\* matches_record without its name clause
matches_record_any_name(record, rule) ==
    LET content == _normalize_content(record)
    IN  /\ ("type" \in DOMAIN rule => Upper(Get(record, "type", "")) = Upper(rule.type))
        /\ ("content" \in DOMAIN rule => content = rule.content)
        /\ ("content_contains" \in DOMAIN rule => Contains(rule.content_contains, content))
        /\ ("content_startswith" \in DOMAIN rule =>
                StartsWith(content, rule.content_startswith))
        /\ ("content_contains_any" \in DOMAIN rule =>
                \E k \in 1..Len(rule.content_contains_any) :
                    Contains(rule.content_contains_any[k], content))
        /\ ("proxied" \in DOMAIN rule =>
                "proxied" \in DOMAIN record /\ record.proxied = rule.proxied)

\* matches_record without its content clauses
matches_record_any_content(record, rule) ==
    /\ ("type" \in DOMAIN rule => Upper(Get(record, "type", "")) = Upper(rule.type))
    /\ ("name" \in DOMAIN rule =>
            _rec_name_matches_rule(Get(record, "name", <<>>), rule.name))
    /\ ("proxied" \in DOMAIN rule =>
            "proxied" \in DOMAIN record /\ record.proxied = rule.proxied)

matches_record(record, rule) ==
    LET content == _normalize_content(record)
    IN  /\ ("type" \in DOMAIN rule => Upper(Get(record, "type", "")) = Upper(rule.type))
        /\ ("name" \in DOMAIN rule =>
                _rec_name_matches_rule(Get(record, "name", <<>>), rule.name))
        /\ ("content" \in DOMAIN rule => content = rule.content)
        /\ ("content_contains" \in DOMAIN rule => Contains(rule.content_contains, content))
        /\ ("content_startswith" \in DOMAIN rule =>
                StartsWith(content, rule.content_startswith))
        /\ ("content_contains_any" \in DOMAIN rule =>
                \E k \in 1..Len(rule.content_contains_any) :
                    Contains(rule.content_contains_any[k], content))
        /\ ("proxied" \in DOMAIN rule =>
                "proxied" \in DOMAIN record /\ record.proxied = rule.proxied)

\* the index of the first element of a non-empty list comprehension
\* [r for r in recs if P(r)], given flags[i] = P(recs[i])
FirstIndex(flags) == CHOOSE i \in 1..Len(flags) :
    flags[i] /\ \A j \in 1..(i - 1) : ~flags[j]

\* A finding is a record; the keys description and expected are left out
\* (no code reads expected; description is display text).
_check_record_policy(policy, live_records) ==
    LET rule == Get(policy, "rule", EmptyDict)
        rule_type == Get(policy, "rule_type", "")
        policy_id == Get(policy, "id", "")
        severity == Get(policy, "severity", "warning")
        Matches(r) == matches_record(r, rule)
        Target(r) ==
            /\ Upper(Get(r, "type", "")) = Upper(Get(rule, "type", ""))
            /\ _rec_name_matches_rule(Get(r, "name", <<>>), Get(rule, "name", <<>>))
        AnyMatch == \E i \in 1..Len(live_records) : Matches(live_records[i])
        AnyTarget == \E i \in 1..Len(live_records) : Target(live_records[i])
        FromPolicy(type, actual) ==
            [policy_id |-> policy_id, severity |-> severity, type |-> type,
             actual |-> actual,
             auto_heal |-> Get(policy, "auto_heal", FALSE),
             heal_action |-> Get(policy, "heal_action", None)]
    IN  IF rule_type = "record_required"
        THEN IF AnyMatch THEN None ELSE FromPolicy("missing_record", None)
        ELSE IF rule_type = "record_forbidden"
        THEN IF ~AnyMatch THEN None
             ELSE [policy_id |-> policy_id, severity |-> severity,
                   type |-> "forbidden_record_present",
                   actual |-> live_records[FirstIndex([i \in 1..Len(live_records) |-> Matches(live_records[i])])],
                   auto_heal |-> FALSE, heal_action |-> None]
        ELSE IF rule_type = "record_value_match"
        THEN IF ~AnyTarget THEN FromPolicy("record_value_mismatch", None)
             ELSE IF \E i \in 1..Len(live_records) :
                        Target(live_records[i]) /\ Matches(live_records[i])
             THEN None
             ELSE FromPolicy("record_value_mismatch",
                             live_records[FirstIndex(
                                [i \in 1..Len(live_records) |-> Target(live_records[i])])])
        ELSE None

(***************************************************************************)
(* The auto-heal classifier.                                               *)
(***************************************************************************)
AUDIT_ONLY_DOMAINS == {"theomgroup.ai"}

SafeTypes == {"TXT", "CAA", "CNAME"}
SafeVerbs == {"add", "upsert", "add_if_missing"}

\* heal_action.get("record", heal_action.get("records", [])): the value under
\* "record" is a dict, the value under "records" a list (the two shapes the
\* policies table holds), so isinstance() is decided by the key it came from.
HealRecordIsDict(heal_action) == "record" \in DOMAIN heal_action
HealRecordList(heal_action) == Get(heal_action, "records", <<>>)

\* r.get("type") in ("TXT", "CAA", "CNAME") for a dict r
TypeIsSafe(r) == "type" \in DOMAIN r /\ r.type \in SafeTypes

\* The call raises AttributeError when all() reaches a list element that is
\* None (r.get on None) before it reaches an element that makes it stop.
_is_safe_raises(finding, domain) ==
    LET heal_action == OrEmpty(Get(finding, "heal_action", None))
        records == HealRecordList(heal_action)
    IN  /\ domain \notin AUDIT_ONLY_DOMAINS
        /\ Get(finding, "auto_heal", FALSE)
        /\ Get(heal_action, "action", "") \in SafeVerbs
        /\ ~HealRecordIsDict(heal_action)
        /\ \E i \in 1..Len(records) :
              /\ records[i] = None
              /\ \A j \in 1..(i - 1) : TypeIsSafe(records[j])

\* The value returned (when the call does not raise).
_is_safe_no_audit_only(finding, domain) ==
    LET heal_action == OrEmpty(Get(finding, "heal_action", None))
        action == Get(heal_action, "action", "")
    IN  IF ~Get(finding, "auto_heal", FALSE) THEN FALSE
        ELSE IF action \in SafeVerbs
        THEN IF HealRecordIsDict(heal_action)
             THEN Get(heal_action.record, "type", "") \in SafeTypes
             ELSE \A i \in 1..Len(HealRecordList(heal_action)) :
                     /\ HealRecordList(heal_action)[i] # None
                     /\ TypeIsSafe(HealRecordList(heal_action)[i])
        ELSE FALSE

_is_safe_to_auto_heal(finding, domain) ==
    IF domain \in AUDIT_ONLY_DOMAINS THEN FALSE
    ELSE IF ~Get(finding, "auto_heal", FALSE) THEN FALSE
    ELSE LET heal_action == OrEmpty(Get(finding, "heal_action", None))
             action == Get(heal_action, "action", "")
         IN  IF action \in SafeVerbs
             THEN IF HealRecordIsDict(heal_action)
                  THEN Get(heal_action.record, "type", "") \in SafeTypes
                  ELSE \A i \in 1..Len(HealRecordList(heal_action)) :
                          /\ HealRecordList(heal_action)[i] # None
                          /\ TypeIsSafe(HealRecordList(heal_action)[i])
             ELSE FALSE

(***************************************************************************)
(* The tables and the Cloudflare account the handlers work on.             *)
(*   Two domains, as _get_all_domain_configs() returns them (order by      *)
(*   tier): a tier 3 domain and the audit-only tier 5 domain.              *)
(***************************************************************************)
D_cortex == "omcortex.ai"
D_group == "theomgroup.ai"

\* the characters of the strings the code both compares and takes apart
Chars(s) ==
    CASE s = D_cortex -> <<"o","m","c","o","r","t","e","x",".","a","i">>
      [] s = D_group -> <<"t","h","e","o","m","g","r","o","u","p",".","a","i">>
      [] s = "global" -> <<"g","l","o","b","a","l">>
      [] s = "tier:" -> <<"t","i","e","r",":">>
      [] s = "service:" -> <<"s","e","r","v","i","c","e",":">>
      [] s = "domain:" -> <<"d","o","m","a","i","n",":">>
      [] s = "gw" -> <<"g","w">>
      [] s = "_dmarc" -> <<"_","d","m","a","r","c">>
      [] s = "www" -> <<"w","w","w">>
      [] s = "old" -> <<"o","l","d">>
      [] s = "sel" -> <<"s","e","l">>
      [] s = "v=D" -> <<"v","=","D">>
      [] s = "v=D1" -> <<"v","=","D","1">>
      [] s = "i:g" -> <<"i",":","g">>
      [] s = "v=s i:g" -> <<"v","=","s"," ","i",":","g">>
      [] s = "v=s i:s" -> <<"v","=","s"," ","i",":","s">>
      [] s = "@" -> <<"@">>
      [] s = "." -> <<".">>
      [] OTHER -> <<>>

InitDomainConfig ==
    << [domain |-> D_cortex, tier |-> 3, services |-> {Chars("gw")},
        cloudflare_zone_id |-> "", last_audit_status |-> ""],
       [domain |-> D_group, tier |-> 5, services |-> {},
        cloudflare_zone_id |-> "", last_audit_status |-> ""] >>

\* the zone id Cloudflare's zone list gives for a domain
ZoneIdOf(domain) == IF domain = D_cortex THEN "zone-cortex" ELSE "zone-group"

\* heal records the policies prescribe
R_dmarc == [type |-> "TXT", name |-> Chars("_dmarc"), content |-> Chars("v=D1")]
R_spf == [type |-> "TXT", name |-> Chars("@"), content |-> Chars("v=s i:g")]
R_mx == [type |-> "MX", name |-> Chars("@"), content |-> Chars("gw")]
R_caa1 == [type |-> "CAA", name |-> Chars("@"), data |-> [tag |-> "issue"]]
R_caa2 == [type |-> "CAA", name |-> Chars("@"), content |-> Chars("sel")]
R_a1 == [type |-> "A", name |-> Chars("www"), content |-> Chars("."), proxied |-> TRUE]
R_a2 == [type |-> "A", name |-> Chars("@"), content |-> Chars(".")]

\* dns_policies, in the order the select returns the rows
DnsPolicies ==
    << [id |-> "dmarc", enabled |-> TRUE, scope |-> Chars("global"),
        rule_type |-> "record_required", severity |-> "warning",
        rule |-> [type |-> "TXT", name |-> Chars("_dmarc"),
                  content_startswith |-> Chars("v=D")],
        auto_heal |-> TRUE,
        heal_action |-> [action |-> "add", record |-> R_dmarc]],
       [id |-> "mx", enabled |-> TRUE, scope |-> Chars("service:") \o Chars("gw"),
        rule_type |-> "record_required", severity |-> "critical",
        rule |-> [type |-> "MX", name |-> Chars("@")],
        auto_heal |-> TRUE,
        heal_action |-> [action |-> "add", record |-> R_mx]],
       [id |-> "caa", enabled |-> TRUE, scope |-> Chars("tier:") \o <<"3">>,
        rule_type |-> "record_required", severity |-> "warning",
        rule |-> [type |-> "CAA", name |-> Chars("@")],
        auto_heal |-> TRUE,
        heal_action |-> [action |-> "add_if_missing", records |-> <<R_caa1, R_caa2>>]],
       [id |-> "spf", enabled |-> TRUE, scope |-> Chars("global"),
        rule_type |-> "record_value_match", severity |-> "warning",
        rule |-> [type |-> "TXT", name |-> Chars("@"),
                  content_contains_any |-> <<Chars("i:g")>>],
        auto_heal |-> FALSE,
        heal_action |-> [action |-> "upsert", record |-> R_spf]],
       [id |-> "www", enabled |-> TRUE, scope |-> Chars("domain:") \o Chars(D_cortex),
        rule_type |-> "record_required", severity |-> "info",
        rule |-> [type |-> "A", name |-> Chars("www"), proxied |-> TRUE],
        auto_heal |-> TRUE,
        heal_action |-> [action |-> "add_if_missing", records |-> <<R_a1, R_a2>>]],
       [id |-> "old", enabled |-> TRUE, scope |-> Chars("global"),
        rule_type |-> "record_forbidden", severity |-> "critical",
        rule |-> [type |-> "A", name |-> Chars("old")],
        auto_heal |-> TRUE,
        heal_action |-> [action |-> "delete", record |-> R_a2]],
       [id |-> "dkim", enabled |-> TRUE, scope |-> Chars("global"),
        rule_type |-> "record_required", severity |-> "info",
        rule |-> [type |-> "TXT", name |-> Chars("sel")],
        auto_heal |-> TRUE,
        heal_action |-> [action |-> "description", note |-> "manual"]],
       [id |-> "off", enabled |-> FALSE, scope |-> Chars("global"),
        rule_type |-> "record_required", severity |-> "info",
        rule |-> [type |-> "TXT", name |-> Chars("www")]] >>

\* what list_dns_records can return for a domain's zone: an empty zone, a
\* zone with a quoted SPF record, DMARC, MX, DKIM and a stale A record, or a
\* zone that meets every policy
LiveRecords(domain, choice) ==
    IF choice = 1 THEN <<>>
    ELSE IF choice = 3
    THEN << [type |-> "TXT", name |-> Chars(domain), content |-> Chars("v=s i:g")],
            [type |-> "TXT", name |-> Chars("_dmarc") \o Chars(".") \o Chars(domain),
             content |-> Chars("v=D1")],
            [type |-> "MX", name |-> Chars(domain), content |-> Chars("gw")],
            [type |-> "TXT", name |-> Chars("sel") \o Chars(".") \o Chars(domain),
             content |-> Chars("sel")],
            [type |-> "CAA", name |-> Chars(domain), content |-> Chars("sel")],
            [type |-> "A", name |-> Chars("www") \o Chars(".") \o Chars(domain),
             content |-> Chars("."), proxied |-> TRUE] >>
    ELSE << [type |-> "TXT", name |-> Chars(domain),
             content |-> <<Quote>> \o Chars("v=s i:s") \o <<Quote>>],
            [type |-> "TXT", name |-> Chars("_dmarc") \o Chars(".") \o Chars(domain),
             content |-> Chars("v=D1")],
            [type |-> "MX", name |-> Chars(domain), content |-> Chars("gw")],
            [type |-> "TXT", name |-> Chars("sel") \o Chars(".") \o Chars(domain),
             content |-> Chars("sel")],
            [type |-> "A", name |-> Chars("old") \o Chars(".") \o Chars(domain),
             content |-> Chars("."), proxied |-> FALSE] >>
LiveChoices == {1, 2, 3}

\* dns_approval_queue rows present before the first call: rows an operator
\* or an earlier run left, one per action and status the handlers read
InitQueue ==
    << [id |-> 1, domain |-> D_cortex, record_type |-> "A", record_name |-> Chars("www"),
        action |-> "update", status |-> "pending", cloudflare_record_id |-> "rec-1",
        proposed_value |-> R_a1, policy_id |-> "www", audit_run_id |-> 0,
        review_notes |-> ""],
       [id |-> 2, domain |-> D_cortex, record_type |-> "A", record_name |-> Chars("old"),
        action |-> "delete", status |-> "pending", cloudflare_record_id |-> "rec-2",
        proposed_value |-> EmptyDict, policy_id |-> "old", audit_run_id |-> 0,
        review_notes |-> ""],
       [id |-> 3, domain |-> D_group, record_type |-> "MX", record_name |-> Chars("@"),
        action |-> "create", status |-> "expired", cloudflare_record_id |-> "",
        proposed_value |-> R_mx, policy_id |-> "mx", audit_run_id |-> 0,
        review_notes |-> ""],
       [id |-> 4, domain |-> D_cortex, record_type |-> "A", record_name |-> Chars("@"),
        action |-> "delete", status |-> "pending", cloudflare_record_id |-> "",
        proposed_value |-> EmptyDict, policy_id |-> "old", audit_run_id |-> 0,
        review_notes |-> ""],
       [id |-> 5, domain |-> D_group, record_type |-> "TXT", record_name |-> Chars("@"),
        action |-> "replace", status |-> "pending", cloudflare_record_id |-> "rec-5",
        proposed_value |-> R_spf, policy_id |-> "spf", audit_run_id |-> 0,
        review_notes |-> ""] >>

(***************************************************************************)
(* State.                                                                  *)
(***************************************************************************)
VARIABLES
    dns_domain_config,   \* table dns_domain_config
    dns_approval_queue,  \* table dns_approval_queue
    dns_change_log,      \* table dns_change_log
    dns_audit_log,       \* table dns_audit_log
    dns_snapshots,       \* table dns_snapshots
    session_handoff,     \* table session_handoff
    session_handoff_history,  \* table session_handoff_history
    tasks,               \* table tasks
    files,               \* the files under LocalStorage's base path
    clients,             \* the module-level cached Supabase clients
    procs,               \* handler calls in progress at the same time
    cf_calls,            \* the create/update/delete calls issued to Cloudflare
    run,                 \* the last handler call: arguments, locals, outcome
    calls,               \* handler calls so far
    fn_in, fn_out        \* argument and result of a pure function under check

vars == <<dns_domain_config, dns_approval_queue, dns_change_log,
          dns_audit_log, dns_snapshots, session_handoff, session_handoff_history,
          tasks, files, clients, procs, cf_calls, run, calls, fn_in, fn_out>>

other_vars == <<tasks, files, clients, procs>>

handoff_vars == <<session_handoff, session_handoff_history>>

\* d[k] = v
Set(d, k, v) == (k :> v) @@ d

(***************************************************************************)
(* Faults. A handler call meets a set F of at most MaxFaults faults; a     *)
(* fault <<kind, n>> makes the n-th call of that kind in the handler call  *)
(* fail (for the kinds that are per domain, n is the domain's position).   *)
(***************************************************************************)
FaultPoints ==
    ({"list_zones", "audit_log", "get_zone_id", "cf_apply", "update_status"} \X {1})
    \cup ({"zone_missing", "list_dns_records", "update_config", "queue_approval",
            "insert_snapshot", "update_zone_id"} \X (1..2))
    \cup ({"create_dns_record", "log_change"} \X (1..3))
    \cup ({"supabase_offline", "select_handoff", "insert_history", "upsert_handoff",
            "select_tasks", "insert_task"} \X {1})
RECURSIVE FaultSetsUpTo(_)
FaultSetsUpTo(n) ==
    IF n = 0 THEN {{}}
    ELSE LET S == FaultSetsUpTo(n - 1)
         IN  S \cup {s \cup {p} : s \in S, p \in FaultPoints}
FaultSets == FaultSetsUpTo(MaxFaults)

\* the tables and the Cloudflare call trace, threaded through a handler
Store ==
    [queue |-> dns_approval_queue, change_log |-> dns_change_log,
     audit_log |-> dns_audit_log, config |-> dns_domain_config, cf |-> cf_calls,
     n_create |-> 0, n_log |-> 0, n_queue |-> 0, raised |-> FALSE]

\* status a new dns_approval_queue row gets from the table's column default
QueueDefaultStatus == "pending"

_log_change(change, st, F) ==
    IF <<"log_change", st.n_log + 1>> \in F
    THEN [st EXCEPT !.n_log = @ + 1]
    ELSE [st EXCEPT !.n_log = @ + 1, !.change_log = Append(@, change)]

_queue_approval(item, st, F) ==
    IF <<"queue_approval", st.n_queue + 1>> \in F
    THEN [st EXCEPT !.n_queue = @ + 1, !.raised = TRUE]
    ELSE [st EXCEPT !.n_queue = @ + 1,
                    !.queue = Append(@, item @@ [id |-> Len(st.queue) + 1,
                                                 status |-> QueueDefaultStatus])]

DefaultTTL == 3600

\* the payload _apply_heal_action builds for create_dns_record
HealPayload(record) ==
    IF record.type = "CAA" /\ "data" \in DOMAIN record
    THEN [type |-> "CAA", name |-> record.name, data |-> record.data,
          ttl |-> Get(record, "ttl", DefaultTTL)]
    ELSE [type |-> record.type, name |-> record.name,
          content |-> Get(record, "content", <<>>),
          ttl |-> Get(record, "ttl", DefaultTTL),
          proxied |-> Get(record, "proxied", FALSE)]

\* lines 593-629: the try block for one record; acc = [result, st]
ApplyCreate(record, domain, zone_id, finding, run_id, acc, F) ==
    LET st == acc.st
        n == st.n_create + 1
        call == [op |-> "create", zone_id |-> zone_id, domain |-> domain,
                 by |-> "auto_heal", policy_id |-> finding.policy_id,
                 run_id |-> run_id, type |-> record.type, name |-> record.name,
                 payload |-> HealPayload(record)]
    IN  IF ~({"type", "name"} \subseteq DOMAIN record)
        THEN [acc EXCEPT !.result = Set(Set(@, "error", "KeyError"), "applied", FALSE)]
        ELSE IF <<"create_dns_record", n>> \in F
        THEN [result |-> Set(Set(acc.result, "error", "cloudflare"), "applied", FALSE),
              st |-> [st EXCEPT !.n_create = n,
                                !.cf = Append(@, call @@ [ok |-> FALSE])]]
        ELSE [result |-> Set(Set(acc.result, "applied", TRUE),
                             "cloudflare_record_id", "rec-new"),
              st |-> _log_change(
                        [domain |-> domain, change_type |-> "auto_heal",
                         record_type |-> record.type, record_name |-> record.name,
                         action |-> "create", audit_run_id |-> run_id,
                         policy_id |-> finding.policy_id, applied_by |-> "sentinel"],
                        [st EXCEPT !.n_create = n,
                                   !.cf = Append(@, call @@ [ok |-> TRUE])],
                        F)]

ApplyOneRecordForReal(record, domain, zone_id, finding, dry_run, run_id, acc, F) ==
    ApplyCreate(record, domain, zone_id, finding, run_id, acc, F)

\* one iteration of the loop over records_to_add; acc = [result, st]
ApplyOneRecord(record, domain, zone_id, finding, dry_run, run_id, acc, F) ==
    IF dry_run
    THEN [acc EXCEPT !.result = Set(Set(@, "would_create", record), "applied", FALSE)]
    ELSE ApplyCreate(record, domain, zone_id, finding, run_id, acc, F)

RECURSIVE ApplyRecords(_, _, _, _, _, _, _, _, _)
ApplyRecords(records, i, domain, zone_id, finding, dry_run, run_id, acc, F) ==
    IF i > Len(records) THEN acc
    ELSE ApplyRecords(records, i + 1, domain, zone_id, finding, dry_run, run_id,
            ApplyOneRecord(records[i], domain, zone_id, finding, dry_run, run_id, acc, F),
            F)

\* returns [result, st]
_apply_heal_action(domain, zone_id, finding, dry_run, run_id, st, F) ==
    LET heal_action == OrEmpty(Get(finding, "heal_action", None))
        action == Get(heal_action, "action", "")
        result == [domain |-> domain, action |-> action,
                   finding |-> finding.policy_id, applied |-> FALSE]
        records_to_add ==
            IF action \in {"add", "upsert"} /\ "record" \in DOMAIN heal_action
            THEN <<heal_action.record>>
            ELSE IF action = "add_if_missing" /\ "records" \in DOMAIN heal_action
            THEN heal_action.records
            ELSE <<>>
    IN  IF action = "description"
        THEN [result |-> Set(result, "note", Get(heal_action, "note", "Manual action required")),
              st |-> st]
        ELSE ApplyRecords(records_to_add, 1, domain, zone_id, finding, dry_run, run_id,
                          [result |-> result, st |-> st], F)

(***************************************************************************)
(* _get_policies_for_domain: the enabled rows whose scope applies.         *)
(***************************************************************************)
\* s.split(":")[1] for s with at least one ":" : the text between the first
\* ":" and the next one (or the end)
RECURSIVE UpToColon(_)
UpToColon(s) ==
    IF Len(s) = 0 \/ s[1] = ":" THEN <<>> ELSE <<s[1]>> \o UpToColon(Tail(s))
RECURSIVE AfterColon(_)
AfterColon(s) ==
    IF Len(s) = 0 THEN <<>> ELSE IF s[1] = ":" THEN Tail(s) ELSE AfterColon(Tail(s))

Digits == {"0", "1", "2", "3", "4", "5", "6", "7", "8", "9"}
DigitVal(c) == CHOOSE n \in 0..9 : <<"0","1","2","3","4","5","6","7","8","9">>[n + 1] = c
\* int(s) raises ValueError unless s is a run of digits
ParsesAsInt(s) == Len(s) > 0 /\ \A i \in 1..Len(s) : s[i] \in Digits
RECURSIVE IntOf(_)
IntOf(s) == IF Len(s) = 0 THEN 0 ELSE 10 * IntOf(SubSeq(s, 1, Len(s) - 1)) + DigitVal(s[Len(s)])

\* ScopeApplies with the tier number left unread
ScopeAppliesAnyTier(policy, domain_config) ==
    LET scope == Get(policy, "scope", Chars("global"))
        services == Get(domain_config, "services", {})
        domain == Get(domain_config, "domain", "")
    IN  IF scope = Chars("global") THEN TRUE
        ELSE IF StartsWith(scope, Chars("tier:")) THEN TRUE
        ELSE IF StartsWith(scope, Chars("service:"))
        THEN AfterColon(scope) \in services
        ELSE IF StartsWith(scope, Chars("domain:"))
        THEN AfterColon(scope) = Chars(domain)
        ELSE FALSE

ScopeApplies(policy, domain_config) ==
    LET scope == Get(policy, "scope", Chars("global"))
        tier == Get(domain_config, "tier", 0)
        services == Get(domain_config, "services", {})
        domain == Get(domain_config, "domain", "")
    IN  IF scope = Chars("global") THEN TRUE
        ELSE IF StartsWith(scope, Chars("tier:"))
        THEN tier = IntOf(UpToColon(AfterColon(scope)))
        ELSE IF StartsWith(scope, Chars("service:"))
        THEN AfterColon(scope) \in services
        ELSE IF StartsWith(scope, Chars("domain:"))
        THEN AfterColon(scope) = Chars(domain)
        ELSE FALSE

\* policies: the rows of dns_policies (the handlers only read the table)
_get_policies_for_domain(domain_config, policies) ==
    LET Applies(policy) == policy.enabled /\ ScopeApplies(policy, domain_config)
    IN  SelectSeq(policies, Applies)

\* _check_record_policy on the model's policies and zones, computed once
PolicyIds == {DnsPolicies[i].id : i \in 1..Len(DnsPolicies)}
PolicyById(id) == DnsPolicies[CHOOSE i \in 1..Len(DnsPolicies) : DnsPolicies[i].id = id]
CheckMemo[id \in PolicyIds, domain \in {D_cortex, D_group}, choice \in LiveChoices] ==
    _check_record_policy(PolicyById(id), LiveRecords(domain, choice))

(***************************************************************************)
(* dns_audit                                                               *)
(***************************************************************************)
_get_domain_config(config, domain) ==
    LET Is(c) == c.domain = domain IN SelectSeq(config, Is)

\* client.table("dns_domain_config").update(fields).eq("domain", domain)
UpdateConfig(config, domain, key, value) ==
    [i \in 1..Len(config) |->
        IF config[i].domain = domain THEN Set(config[i], key, value) ELSE config[i]]

\* the guard of the auto-heal branch (line 787)
AuditHealsAlways(fix_safe, finding, domain) == fix_safe

AuditHeals(fix_safe, finding, domain) ==
    fix_safe /\ _is_safe_to_auto_heal(finding, domain)

\* the guard of the approval branch (line 793)
AuditQueuesAnyDomain(finding, domain) ==
    /\ ~_is_safe_to_auto_heal(finding, domain)
    /\ TruthyDict(Get(finding, "heal_action", None))

AuditQueues(finding, domain) ==
    /\ ~_is_safe_to_auto_heal(finding, domain)
    /\ TruthyDict(Get(finding, "heal_action", None))
    /\ domain \notin AUDIT_ONLY_DOMAINS

\* the body of "for policy in policies" for one failing policy;
\* loc = [st, all_findings, healed, queued, produced, domain_passed]
\* lines 788-792: the heal was attempted; heal = [result, st]
AuditAfterHeal(l1, finding, heal) ==
    IF heal.result.applied
    THEN [l1 EXCEPT !.st = heal.st,
                    !.healed = Append(@, heal.result),
                    !.produced = Append(@, Set(finding, "healed", TRUE))]
    ELSE [l1 EXCEPT !.st = heal.st,
                    !.all_findings = Append(@, finding),
                    !.produced = Append(@, finding)]

\* lines 798-811: the approval item was inserted, or the insert raised
AuditAfterQueue(l1, finding, domain, queued_st) ==
    IF queued_st.raised
    THEN [l1 EXCEPT !.st = queued_st, !.produced = Append(@, finding)]
    ELSE [l1 EXCEPT !.st = queued_st,
                    !.queued = Append(@, domain),
                    !.all_findings =
                        Append(@, Set(finding, "queued_for_approval", TRUE)),
                    !.produced =
                        Append(@, Set(finding, "queued_for_approval", TRUE))]

\* lines 787-813 for a finding that has its domain and run_id
AuditRoute(l1, finding, record, domain, zone_id, fix_safe, run_id, F) ==
    IF AuditHeals(fix_safe, finding, domain)
    THEN AuditAfterHeal(l1, finding,
            _apply_heal_action(domain, zone_id, finding, FALSE, run_id, l1.st, F))
    ELSE IF AuditQueues(finding, domain) /\ TruthyDict(record)
    THEN AuditAfterQueue(l1, finding, domain,
            _queue_approval(
                [domain |-> domain, record_type |-> Get(record, "type", ""),
                 record_name |-> Get(record, "name", <<>>), action |-> "create",
                 proposed_value |-> record, audit_run_id |-> run_id,
                 policy_id |-> finding.policy_id],
                l1.st, F))
    ELSE [l1 EXCEPT !.all_findings = Append(@, finding),
                    !.produced = Append(@, finding)]

AuditFinding(loc, finding0, domain, zone_id, fix_safe, run_id, F) ==
    AuditRoute([loc EXCEPT !.domain_passed = FALSE],
               Set(Set(finding0, "domain", domain), "run_id", run_id),
               Get(OrEmpty(Get(finding0, "heal_action", None)), "record", None),
               domain, zone_id, fix_safe, run_id, F)

\* lines 779-781: a passing policy is skipped
AuditPolicy(loc, finding, domain, zone_id, fix_safe, run_id, F) ==
    IF finding = None THEN loc
    ELSE AuditFinding(loc, finding, domain, zone_id, fix_safe, run_id, F)

RECURSIVE AuditPolicies(_, _, _, _, _, _, _, _, _)
AuditPolicies(loc, policies, i, choice, domain, zone_id, fix_safe, run_id, F) ==
    IF i > Len(policies) \/ loc.st.raised THEN loc
    ELSE AuditPolicies(AuditPolicy(loc, CheckMemo[policies[i].id, domain, choice],
                                   domain, zone_id, fix_safe, run_id, F),
                       policies, i + 1, choice, domain, zone_id, fix_safe, run_id, F)

\* the body of "for config in configs" for the k-th config
\* lines 815-826: the domain's policies were evaluated (l1)
AuditDomainStatus(l1, domain, k, status, F) ==
    IF l1.st.raised THEN l1
    ELSE [l1 EXCEPT !.passed = IF l1.domain_passed THEN @ + 1 ELSE @,
                    !.scanned = Append(@, [domain |-> domain, status |-> status,
                                           saved |-> <<"update_config", k>> \notin F]),
                    !.st.config =
                        IF <<"update_config", k>> \in F THEN @
                        ELSE UpdateConfig(@, domain, "last_audit_status", status)]

AuditDomainEndPass(l1, domain, k, F) == AuditDomainStatus(l1, domain, k, "pass", F)

AuditDomainEnd(l1, domain, k, F) ==
    AuditDomainStatus(l1, domain, k, IF l1.domain_passed THEN "pass" ELSE "drift", F)

\* lines 765-773: list_dns_records raised
AuditFetchErrorRaises(loc, domain) ==
    [loc EXCEPT !.fetched = Append(@, [domain |-> domain, ok |-> FALSE]),
                !.st.raised = TRUE]

AuditFetchError(loc, domain) ==
    [loc EXCEPT !.all_findings = Append(@,
                    [domain |-> domain, severity |-> "critical",
                     type |-> "cloudflare_error", auto_heal |-> FALSE]),
                !.fetched = Append(@, [domain |-> domain, ok |-> FALSE])]

\* lines 750-826 for a domain and the zone id found for it
AuditZone(loc, config, domain, zone_id, k, live, fix_safe, run_id, F) ==
    IF zone_id = ""
    THEN [loc EXCEPT !.all_findings = Append(@,
            [domain |-> domain, severity |-> "critical", type |-> "zone_not_found",
             auto_heal |-> FALSE])]
    ELSE IF <<"list_dns_records", k>> \in F
    THEN AuditFetchError(loc, domain)
    ELSE AuditDomainEnd(
            AuditPolicies([loc EXCEPT !.domain_passed = TRUE,
                                      !.fetched = Append(@, [domain |-> domain, ok |-> TRUE]),
                                      !.total_records =
                                          @ + Len(LiveRecords(domain, live[k]))],
                          _get_policies_for_domain(config, DnsPolicies), 1, live[k],
                          domain, zone_id, fix_safe, run_id, F),
            domain, k, F)

AuditDomain(loc, config, k, live, fix_safe, run_id, F) ==
    AuditZone(loc, config, config.domain,
              IF <<"zone_missing", k>> \in F
              THEN Get(config, "cloudflare_zone_id", "")
              ELSE ZoneIdOf(config.domain),
              k, live, fix_safe, run_id, F)

RECURSIVE AuditDomains(_, _, _, _, _, _, _)
AuditDomains(loc, configs, k, live, fix_safe, run_id, F) ==
    IF k > Len(configs) \/ loc.st.raised THEN loc
    ELSE AuditDomains(AuditDomain(loc, configs[k], k, live, fix_safe, run_id, F),
                      configs, k + 1, live, fix_safe, run_id, F)

\* the configs an audit run works on, from its arguments
AuditConfigs(args) ==
    IF args.domain # ""
    THEN _get_domain_config(dns_domain_config, args.domain)
    ELSE IF args.tier # 0
    THEN LET InTier(c) == c.tier = args.tier IN SelectSeq(dns_domain_config, InTier)
    ELSE dns_domain_config

\* lines 828-848: the row of dns_audit_log
AuditLogRow(loc, configs, run_id) ==
    [run_id |-> run_id, domains_scanned |-> Len(configs),
     total_records_checked |-> loc.total_records,
     findings |-> loc.all_findings,
     summary |-> [pass |-> loc.passed, drift |-> Len(configs) - loc.passed,
                  auto_healed |-> Len(loc.healed),
                  pending_approval |-> Len(loc.queued),
                  total_findings |-> Len(loc.all_findings)]]

\* lines 828-891: the loop over the configs has ended (loc)
AuditSave(loc, configs, run_id, F) ==
    IF loc.st.raised
    THEN Set(loc, "returned", "raised")
    ELSE IF <<"audit_log", 1>> \in F
    THEN Set(loc, "returned", "report")
    ELSE Set([loc EXCEPT !.st.audit_log = Append(@, AuditLogRow(loc, configs, run_id))],
             "returned", "report")

\* lines 738-744: the run's locals before the loop
AuditLocals ==
    [st |-> Store, all_findings |-> <<>>, healed |-> <<>>, queued |-> <<>>,
     produced |-> <<>>, scanned |-> <<>>, fetched |-> <<>>, domain_passed |-> TRUE,
     passed |-> 0, total_records |-> 0]

AuditRun(args, configs, run_id, live, F) ==
    IF args.domain # "" /\ Len(configs) = 0
    THEN Set(AuditLocals, "returned", "not_found")
    ELSE IF <<"list_zones", 1>> \in F
    THEN Set(AuditLocals, "returned", "cloudflare_failed")
    ELSE AuditSave(AuditDomains(AuditLocals, configs, 1, live, args.fix_safe, run_id, F),
                   configs, run_id, F)

_handle_dns_audit(args, live, F) == AuditRun(args, AuditConfigs(args), calls + 1, live, F)

(***************************************************************************)
(* dns_heal                                                                *)
(***************************************************************************)
\* the body of "for policy in policies" for one failing policy;
\* loc = [st, healed, skipped_approval, skipped_tier5, healed_records,
\* fetched (the domains list_dns_records was called for)]
HealFinding(loc, policy, finding0, domain, zone_id, dry_run, run_id, F) ==
    LET finding == Set(finding0, "domain", domain)
        heal_action == OrEmpty(Get(finding, "heal_action", None))
        heal_record == Get(heal_action, "record", EmptyDict)
        rec_key == <<Get(heal_record, "type", ""), Get(heal_record, "name", <<>>)>>
        heal == _apply_heal_action(domain, zone_id, finding, dry_run, run_id, loc.st, F)
    IN  IF rec_key[1] # "" /\ rec_key \in loc.healed_records
        THEN loc
        ELSE IF _is_safe_to_auto_heal(finding, domain)
        THEN [loc EXCEPT
                !.st = heal.st,
                !.healed_records =
                    IF heal.result.applied \/ dry_run THEN @ \cup {rec_key} ELSE @,
                !.healed = Append(@, [domain |-> domain, policy |-> Get(policy, "id", ""),
                                      dry_run |-> dry_run, result |-> heal.result])]
        ELSE [loc EXCEPT
                !.skipped_approval =
                    Append(@, [domain |-> domain, policy |-> Get(policy, "id", ""),
                               reason |-> "requires_approval"])]

RECURSIVE HealPolicies(_, _, _, _, _, _, _, _, _)
HealPolicies(loc, policies, i, choice, domain, zone_id, dry_run, run_id, F) ==
    IF i > Len(policies) THEN loc
    ELSE LET finding == CheckMemo[policies[i].id, domain, choice]
         IN  HealPolicies(
                IF finding = None THEN loc
                ELSE HealFinding(loc, policies[i], finding, domain, zone_id, dry_run,
                                 run_id, F),
                policies, i + 1, choice, domain, zone_id, dry_run, run_id, F)

\* the body of "for config in configs" for the k-th config
HealDomain(loc, config, k, live, dry_run, run_id, F) ==
    LET domain == config.domain
        zone_id == IF <<"zone_missing", k>> \in F
                   THEN Get(config, "cloudflare_zone_id", "")
                   ELSE ZoneIdOf(domain)
    IN  IF domain \in AUDIT_ONLY_DOMAINS
        THEN [loc EXCEPT !.skipped_tier5 = Append(@, domain)]
        ELSE IF zone_id = "" THEN loc
        ELSE IF <<"list_dns_records", k>> \in F
        THEN [loc EXCEPT !.fetched = Append(@, domain)]
        ELSE HealPolicies([loc EXCEPT !.healed_records = {},
                                      !.fetched = Append(@, domain)],
                          _get_policies_for_domain(config, DnsPolicies), 1, live[k],
                          domain, zone_id, dry_run, run_id, F)

RECURSIVE HealDomains(_, _, _, _, _, _, _)
HealDomains(loc, configs, k, live, dry_run, run_id, F) ==
    IF k > Len(configs) THEN loc
    ELSE HealDomains(HealDomain(loc, configs[k], k, live, dry_run, run_id, F),
                     configs, k + 1, live, dry_run, run_id, F)

_handle_dns_heal(args, live, F) ==
    LET run_id == calls + 1
        configs == IF args.domain # ""
                   THEN _get_domain_config(dns_domain_config, args.domain)
                   ELSE dns_domain_config
        loc0 == [st |-> Store, healed |-> <<>>, skipped_approval |-> <<>>,
                 skipped_tier5 |-> <<>>, healed_records |-> {}, fetched |-> <<>>]
    IN  IF args.domain # "" /\ Len(configs) = 0
        THEN Set(loc0, "returned", "not_found")
        ELSE IF <<"list_zones", 1>> \in F
        THEN Set(loc0, "returned", "cloudflare_failed")
        ELSE Set(HealDomains(loc0, configs, 1, live, Get(args, "dry_run", TRUE), run_id, F),
                 "returned", "report")

(***************************************************************************)
(* dns_approve and dns_reject                                              *)
(***************************************************************************)
\* client.table("dns_approval_queue").update(fields).eq("id", approval_id)
UpdateQueue(queue, approval_id, status, notes) ==
    [i \in 1..Len(queue) |->
        IF queue[i].id = approval_id
        THEN Set(Set(queue[i], "status", status), "review_notes", notes)
        ELSE queue[i]]

QueueItem(queue, approval_id) ==
    LET Is(item) == item.id = approval_id IN SelectSeq(queue, Is)

\* the pending-only guards (lines 1140 and 1222)
ApproveNoGuard(item) == FALSE

ApproveNotPending(item) == Get(item, "status", "") # "pending"

RejectNoGuard(item) == FALSE

RejectNotPending(item) == Get(item, "status", "") # "pending"

\* the Cloudflare record id the stored action works on ("" when there is
\* none); create needs none
ApproveRecordId(item, action) ==
    LET proposed == OrEmpty(Get(item, "proposed_value", None))
    IN  IF action = "update"
        THEN IF Get(item, "cloudflare_record_id", "") # ""
             THEN item.cloudflare_record_id ELSE Get(proposed, "id", "")
        ELSE Get(item, "cloudflare_record_id", "")

\* the try block of _handle_dns_approve, for a pending item with a zone
ApproveApply(item, zone_id, notes, st, F) ==
    LET action == Get(item, "action", "create")
        call == [op |-> action, zone_id |-> zone_id, domain |-> item.domain,
                 by |-> "approved", approval_id |-> item.id,
                 policy_id |-> Get(item, "policy_id", ""),
                 run_id |-> Get(item, "audit_run_id", 0),
                 type |-> Get(item, "record_type", ""),
                 name |-> Get(item, "record_name", <<>>)]
        logged == _log_change(
                    [domain |-> item.domain, change_type |-> "approved",
                     record_type |-> Get(item, "record_type", ""),
                     record_name |-> Get(item, "record_name", <<>>),
                     action |-> action, audit_run_id |-> Get(item, "audit_run_id", 0),
                     policy_id |-> Get(item, "policy_id", ""), applied_by |-> "manual"],
                    [st EXCEPT !.cf = Append(@, call @@ [ok |-> TRUE])], F)
    IN  IF action \notin {"create", "update", "delete"}
        THEN [st |-> st, returned |-> "unknown_action"]
        ELSE IF action # "create" /\ ApproveRecordId(item, action) = ""
        THEN [st |-> st, returned |-> "no_record_id"]
        ELSE IF <<"cf_apply", 1>> \in F
        THEN [st |-> [st EXCEPT !.cf = Append(@, call @@ [ok |-> FALSE])],
              returned |-> "failed"]
        ELSE IF <<"update_status", 1>> \in F
        THEN [st |-> logged, returned |-> "failed"]
        ELSE [st |-> [logged EXCEPT !.queue = UpdateQueue(@, item.id, "approved", notes)],
              returned |-> "applied"]

_handle_dns_approve(args, F) ==
    LET rows == QueueItem(dns_approval_queue, args.approval_id)
        item == rows[1]
        config == _get_domain_config(dns_domain_config, item.domain)
        stored == IF Len(config) > 0 THEN Get(config[1], "cloudflare_zone_id", "") ELSE ""
        zone_id == IF stored # "" THEN stored
                   ELSE IF <<"get_zone_id", 1>> \in F THEN "" ELSE ZoneIdOf(item.domain)
    IN  IF Len(rows) = 0 THEN [st |-> Store, returned |-> "not_found"]
        ELSE IF ApproveNotPending(item) THEN [st |-> Store, returned |-> "not_pending"]
        ELSE IF zone_id = "" THEN [st |-> Store, returned |-> "no_zone"]
        ELSE ApproveApply(item, zone_id, args.notes, Store, F)

_handle_dns_reject(args, F) ==
    LET rows == QueueItem(dns_approval_queue, args.approval_id)
        item == rows[1]
    IN  IF Len(rows) = 0 THEN [st |-> Store, returned |-> "not_found"]
        ELSE IF RejectNotPending(item) THEN [st |-> Store, returned |-> "not_pending"]
        ELSE IF <<"update_status", 1>> \in F
        THEN [st |-> [Store EXCEPT !.raised = TRUE], returned |-> "raised"]
        ELSE [st |-> [Store EXCEPT !.queue =
                        UpdateQueue(@, args.approval_id, "rejected", args.reason)],
              returned |-> "rejected"]

(***************************************************************************)
(* The handler calls. run' holds the call's arguments and what the handler *)
(* computed; the tables after the call are the ones the handler left.      *)
(***************************************************************************)
Commit(st) ==
    /\ dns_approval_queue' = st.queue
    /\ dns_change_log' = st.change_log
    /\ dns_audit_log' = st.audit_log
    /\ dns_domain_config' = st.config
    /\ cf_calls' = st.cf

AuditArgs ==
    {[domain |-> d, tier |-> 0, fix_safe |-> fs] :
        d \in {"", D_cortex, "nodomain.example"}, fs \in BOOLEAN}
    \cup {[domain |-> "", tier |-> 5, fix_safe |-> TRUE]}
HealArgs ==
    {[domain |-> d, dry_run |-> dr] : d \in {"", D_cortex}, dr \in BOOLEAN}
    \cup {[domain |-> D_group, dry_run |-> FALSE], [domain |-> D_cortex]}
ApprovalIds == 0..(Len(InitQueue) + 2)

\* the faults a handler can meet
FaultsOf(kinds) == {F \in FaultSets : \A p \in F : p[1] \in kinds}
AuditFaults == FaultsOf({"list_zones", "zone_missing", "list_dns_records",
                         "create_dns_record", "log_change", "queue_approval",
                         "update_config", "audit_log"})
HealFaults == FaultsOf({"list_zones", "zone_missing", "list_dns_records",
                        "create_dns_record", "log_change"})
ApproveFaults == FaultsOf({"get_zone_id", "cf_apply", "log_change", "update_status"})
RejectFaults == FaultsOf({"update_status"})

DnsAudit ==
    /\ calls < MaxCalls
    /\ \E args \in AuditArgs, live \in [1..2 -> LiveChoices], F \in AuditFaults :
         run' = [op |-> "dns_audit", args |-> args, run_id |-> calls + 1,
                 out |-> _handle_dns_audit(args, live, F)]
    /\ Commit(run'.out.st)
    /\ calls' = calls + 1
    /\ UNCHANGED <<dns_snapshots, handoff_vars, other_vars, fn_in, fn_out>>

DnsHeal ==
    /\ calls < MaxCalls
    /\ \E args \in HealArgs, live \in [1..2 -> LiveChoices], F \in HealFaults :
         run' = [op |-> "dns_heal", args |-> args, run_id |-> calls + 1,
                 out |-> _handle_dns_heal(args, live, F)]
    /\ Commit(run'.out.st)
    /\ calls' = calls + 1
    /\ UNCHANGED <<dns_snapshots, handoff_vars, other_vars, fn_in, fn_out>>

DnsApprove ==
    /\ calls < MaxCalls
    /\ \E id \in ApprovalIds, F \in ApproveFaults :
         run' = [op |-> "dns_approve", args |-> [approval_id |-> id, notes |-> "ok"],
                 run_id |-> calls + 1,
                 out |-> _handle_dns_approve([approval_id |-> id, notes |-> "ok"], F)]
    /\ Commit(run'.out.st)
    /\ calls' = calls + 1
    /\ UNCHANGED <<dns_snapshots, handoff_vars, other_vars, fn_in, fn_out>>

DnsReject ==
    /\ calls < MaxCalls
    /\ \E id \in ApprovalIds, F \in RejectFaults :
         run' = [op |-> "dns_reject", args |-> [approval_id |-> id, reason |-> "no"],
                 run_id |-> calls + 1,
                 out |-> _handle_dns_reject([approval_id |-> id, reason |-> "no"], F)]
    /\ Commit(run'.out.st)
    /\ calls' = calls + 1
    /\ UNCHANGED <<dns_snapshots, handoff_vars, other_vars, fn_in, fn_out>>

\* a module's cached client: client is 0 for None, else the number of the
\* client object; built counts the clients created so far
NoClient == [client |-> 0, built |-> 0]

\* handler calls that can be in progress at the same time
MaxProcs == 2

\* the state the other modules start in: no task, no file, no client built,
\* no call in progress
OtherInit ==
    /\ tasks = <<>>
    /\ files = <<>>
    /\ clients = [quorum |-> NoClient, cortex |-> NoClient]
    /\ procs = [p \in 1..MaxProcs |-> [pc |-> "idle"]]

Init ==
    /\ dns_domain_config = InitDomainConfig
    /\ dns_approval_queue = InitQueue
    /\ dns_change_log = <<>>
    /\ dns_audit_log = <<>>
    /\ dns_snapshots = <<>>
    /\ session_handoff = <<>>
    /\ session_handoff_history = <<>>
    /\ OtherInit
    /\ cf_calls = <<>>
    /\ run = [op |-> "none"]
    /\ calls = 0
    /\ fn_in = None
    /\ fn_out = None

Next == DnsAudit \/ DnsHeal \/ DnsApprove \/ DnsReject

Spec == Init /\ [][Next]_vars

(***************************************************************************)
(* _is_safe_to_auto_heal as a function of its arguments: the findings it   *)
(* can be given (every auto_heal flag, every heal_action shape, a list     *)
(* element that is None included) and both domains.                        *)
(***************************************************************************)
\* records in a heal action's "records" list
MaxRecords == 2

RecTypes == {"TXT", "CAA", "CNAME", "MX", "A", "txt"}
RecDicts == {[type |-> t, name |-> Chars("@")] : t \in RecTypes}
            \cup {[name |-> Chars("@")]}
RECURSIVE ListsUpTo(_, _)
ListsUpTo(S, n) ==
    IF n = 0 THEN {<<>>}
    ELSE LET L == ListsUpTo(S, n - 1)
         IN  L \cup {Append(l, x) : l \in L, x \in S}
HealVerbs == {"add", "upsert", "add_if_missing", "update", "delete", "description"}
HealShapes ==
    LET verbs == {EmptyDict} \cup {[action |-> a] : a \in HealVerbs}
    IN  verbs
        \cup {v @@ [record |-> r] : v \in verbs, r \in RecDicts}
        \cup {v @@ [records |-> l] :
                v \in verbs, l \in ListsUpTo(RecDicts \cup {None}, MaxRecords)}
SafeFindings ==
    LET heals == {[policy_id |-> "p", heal_action |-> h] : h \in HealShapes \cup {None}}
                 \cup {[policy_id |-> "p"]}
    IN  heals \cup {f @@ [auto_heal |-> b] : f \in heals, b \in BOOLEAN}

InitSafe ==
    /\ dns_domain_config = InitDomainConfig
    /\ dns_approval_queue = InitQueue
    /\ dns_change_log = <<>>
    /\ dns_audit_log = <<>>
    /\ dns_snapshots = <<>>
    /\ session_handoff = <<>>
    /\ session_handoff_history = <<>>
    /\ OtherInit
    /\ cf_calls = <<>>
    /\ run = [op |-> "none"]
    /\ calls = 0
    /\ fn_in \in {[finding |-> f, domain |-> d] :
                    f \in SafeFindings, d \in {D_cortex, D_group}}
    /\ fn_out = None

CallIsSafe ==
    /\ fn_out = None
    /\ fn_out' = [raises |-> _is_safe_raises(fn_in.finding, fn_in.domain),
                  value |-> _is_safe_to_auto_heal(fn_in.finding, fn_in.domain)]
    /\ UNCHANGED <<dns_domain_config, dns_approval_queue, dns_change_log,
                   dns_audit_log, dns_snapshots, handoff_vars, other_vars, cf_calls, run, calls,
                   fn_in>>

SpecSafe == InitSafe /\ [][CallIsSafe]_vars

(***************************************************************************)
(* Claims.                                                                 *)
(***************************************************************************)
Range(seq) == {seq[i] : i \in 1..Len(seq)}

\* the records a heal action names
NamedRecords(finding) ==
    LET heal_action == OrEmpty(Get(finding, "heal_action", None))
    IN  IF "record" \in DOMAIN heal_action THEN <<heal_action.record>>
        ELSE Get(heal_action, "records", <<>>)

\* what the specification says makes a fix safe, read off the finding
SafeAsSpecified(finding, domain) ==
    /\ domain \notin AUDIT_ONLY_DOMAINS
    /\ "auto_heal" \in DOMAIN finding /\ finding.auto_heal
    /\ Get(OrEmpty(Get(finding, "heal_action", None)), "action", "") \in
            {"add", "upsert", "add_if_missing"}
    /\ \A r \in Range(NamedRecords(finding)) :
            r # None /\ "type" \in DOMAIN r /\ r.type \in {"TXT", "CAA", "CNAME"}

IsHealed(finding) == Get(finding, "healed", FALSE)

\* the create calls the current run's auto-heal issued
RunHealCalls ==
    {c \in Range(cf_calls) : c.by = "auto_heal" /\ c.run_id = run.run_id}

\* C1: in a dns_audit run a finding is marked healed, and a create call is
\* issued for it, only if fix_safe was set and _is_safe_to_auto_heal is true
\* of the finding and its domain: the domain is not audit-only, the finding
\* has auto_heal set, the verb is add/upsert/add_if_missing and every record
\* type is TXT, CAA or CNAME.
C1_HealedOnlyIfSafe ==
    run.op = "dns_audit" =>
        /\ \A f \in Range(run.out.produced) :
              IsHealed(f) =>
                /\ run.args.fix_safe
                /\ _is_safe_to_auto_heal(f, f.domain)
                /\ SafeAsSpecified(f, f.domain)
        /\ \A c \in RunHealCalls :
              /\ c.op = "create"
              /\ \E f \in Range(run.out.produced) :
                    /\ f.policy_id = c.policy_id /\ f.domain = c.domain
                    /\ run.args.fix_safe
                    /\ _is_safe_to_auto_heal(f, f.domain)
                    /\ SafeAsSpecified(f, f.domain)

C1_Witness ==
    /\ run.op = "dns_audit"
    /\ \E f \in Range(run.out.produced) : IsHealed(f)
    /\ \E f \in Range(run.out.produced) :
          ~IsHealed(f) /\ ~_is_safe_to_auto_heal(f, f.domain)
    /\ RunHealCalls # {}

\* rows dns_audit inserted into the approval queue in this behaviour
QueuedByAudit == {q \in Range(dns_approval_queue) : q.audit_run_id >= 1}

\* C2: for an audit-only domain dns_audit creates no Cloudflare record and
\* queues no approval, with fix_safe true or false: the finding is in the
\* run's findings, neither healed nor queued; dns_heal issues no Cloudflare
\* call for such a domain, not even the fetch of its records.
C2_AuditOnlyUntouched ==
    /\ \A c \in Range(cf_calls) :
          c.by = "auto_heal" => c.domain \notin AUDIT_ONLY_DOMAINS
    /\ \A q \in QueuedByAudit : q.domain \notin AUDIT_ONLY_DOMAINS
    /\ run.op = "dns_audit" =>
          \A f \in Range(run.out.produced) :
              f.domain \in AUDIT_ONLY_DOMAINS =>
                /\ f \in Range(run.out.all_findings)
                /\ ~IsHealed(f)
                /\ "queued_for_approval" \notin DOMAIN f
    /\ run.op = "dns_heal" =>
          /\ \A d \in Range(run.out.fetched) : d \notin AUDIT_ONLY_DOMAINS
          /\ \A h \in Range(run.out.healed) : h.domain \notin AUDIT_ONLY_DOMAINS

\* an audit with fix_safe met, on the audit-only domain, a finding that is
\* healed on any other domain and one that is queued on any other domain
C2_Witness ==
    /\ run.op = "dns_audit" /\ run.args.fix_safe
    /\ \E f \in Range(run.out.produced) :
          /\ f.domain \in AUDIT_ONLY_DOMAINS
          /\ _is_safe_to_auto_heal(f, D_cortex)
    /\ \E f \in Range(run.out.produced) :
          /\ f.domain \in AUDIT_ONLY_DOMAINS
          /\ ~_is_safe_to_auto_heal(f, D_cortex)
          /\ TruthyDict(Get(OrEmpty(f.heal_action), "record", None))

\* C3 (as the specification states it): _is_safe_to_auto_heal returns true
\* only if the finding is flagged auto_heal, the verb is add, upsert or
\* add_if_missing and the heal action names one or more records, each of
\* type TXT, CAA or CNAME.
C3_TrueOnlyForOneOrMoreSafeRecords ==
    (fn_out # None /\ ~fn_out.raises /\ fn_out.value) =>
        /\ SafeAsSpecified(fn_in.finding, fn_in.domain)
        /\ Len(NamedRecords(fn_in.finding)) >= 1

\* C4: for a domain of the audit-only set _is_safe_to_auto_heal returns
\* False, and does not raise, whatever the finding.
C4_AuditOnlyNeverSafe ==
    (fn_out # None /\ fn_in.domain \in AUDIT_ONLY_DOMAINS) =>
        (~fn_out.raises /\ fn_out.value = FALSE)

\* the audit-only domain with a finding that is safe on the other domain,
\* and with one on which the call raises for the other domain
C4_Witness ==
    /\ fn_out # None
    /\ fn_in.domain \in AUDIT_ONLY_DOMAINS
    /\ \/ _is_safe_to_auto_heal(fn_in.finding, D_cortex)
       \/ _is_safe_raises(fn_in.finding, D_cortex)

\* the step is a call of the tool op
IsCall(op) == calls' = calls + 1 /\ run'.op = op

\* the approval item a dns_approve / dns_reject call names, before the call
NamedItem == QueueItem(dns_approval_queue, run'.args.approval_id)

\* the approval queue rows other than the one with this id are untouched
OthersUntouched(approval_id) ==
    /\ Len(dns_approval_queue') = Len(dns_approval_queue)
    /\ \A i \in 1..Len(dns_approval_queue) :
          dns_approval_queue[i].id # approval_id =>
              dns_approval_queue'[i] = dns_approval_queue[i]

\* a finding of the run that the run did not heal although it has a heal
\* action and its domain is not audit-only
LeftUnhealed(f) ==
    /\ "policy_id" \in DOMAIN f
    /\ f.domain \notin AUDIT_ONLY_DOMAINS
    /\ TruthyDict(Get(f, "heal_action", None))
    /\ ~IsHealed(f)
    /\ (~run.args.fix_safe \/ ~_is_safe_to_auto_heal(f, f.domain))

\* C5 (as the specification states it): in a dns_audit run that returns its
\* report, every finding with a heal action on a domain that is not
\* audit-only, and that the run did not heal because fix_safe is false or
\* the fix is unsafe, has an item in the approval queue, whatever the shape
\* of the heal action.
C5_UnhealedIsQueued ==
    (run.op = "dns_audit" /\ run.out.returned = "report") =>
        \A f \in Range(run.out.produced) :
            LeftUnhealed(f) =>
                \E q \in QueuedByAudit :
                    /\ q.audit_run_id = run.run_id
                    /\ q.domain = f.domain
                    /\ q.policy_id = f.policy_id

\* C6 (as the specification states it): a dns_approve call on an item that
\* is not pending issues no Cloudflare call, writes no change-log entry and
\* leaves the queue as it is; on a pending item whose Cloudflare call
\* succeeds the call is the stored action's, one change-log entry is
\* inserted and the item's status becomes approved.
C6_ApprovePendingOnly ==
    [][ (IsCall("dns_approve") /\ Len(NamedItem) > 0) =>
          LET item == NamedItem[1]
              issued == Len(cf_calls') - Len(cf_calls)
              call == cf_calls'[Len(cf_calls')]
          IN  /\ item.status # "pending" =>
                    /\ cf_calls' = cf_calls
                    /\ dns_change_log' = dns_change_log
                    /\ dns_approval_queue' = dns_approval_queue
              /\ (item.status = "pending" /\ issued > 0 /\ call.ok) =>
                    /\ issued = 1
                    /\ call.op = item.action
                    /\ call.op \in {"create", "update", "delete"}
                    /\ Len(dns_change_log') = Len(dns_change_log) + 1
                    /\ QueueItem(dns_approval_queue', item.id)[1].status = "approved"
      ]_vars

\* C7: a dns_reject call never calls Cloudflare and writes no log; it
\* changes the queue only when the item it names is pending, and then only
\* that item, to status rejected with the reason stored; for a missing item
\* or one that is not pending it writes nothing and returns a message.
C7_RejectPendingOnly ==
    [][ IsCall("dns_reject") =>
          /\ cf_calls' = cf_calls
          /\ dns_change_log' = dns_change_log
          /\ dns_audit_log' = dns_audit_log
          /\ dns_domain_config' = dns_domain_config
          /\ OthersUntouched(run'.args.approval_id)
          /\ IF Len(NamedItem) = 0
             THEN /\ dns_approval_queue' = dns_approval_queue
                  /\ run'.out.returned = "not_found"
             ELSE IF NamedItem[1].status # "pending"
             THEN /\ dns_approval_queue' = dns_approval_queue
                  /\ run'.out.returned = "not_pending"
             ELSE \/ /\ dns_approval_queue' = dns_approval_queue
                     /\ run'.out.returned = "raised"
                  \/ /\ run'.out.returned = "rejected"
                     /\ QueueItem(dns_approval_queue', run'.args.approval_id) =
                            << Set(Set(NamedItem[1], "status", "rejected"),
                                   "review_notes", run'.args.reason) >>
      ]_vars

\* one item was rejected, and a second dns_reject naming it was refused
C7_Witness ==
    /\ run.op = "dns_reject"
    /\ run.out.returned = "not_pending"
    /\ \E q \in Range(dns_approval_queue) :
          /\ q.id = run.args.approval_id
          /\ q.status = "rejected"
          /\ q.review_notes = "no"

\* C8: whatever the call, an approval item never leaves the queue, keeps
\* its id, and changes status only from pending to approved or from pending
\* to rejected; an item that is approved, rejected or expired stays so, and
\* a new item is never expired.
C8_TerminalStatuses ==
    [][ /\ Len(dns_approval_queue') >= Len(dns_approval_queue)
        /\ \A i \in 1..Len(dns_approval_queue) :
              /\ dns_approval_queue'[i].id = dns_approval_queue[i].id
              /\ dns_approval_queue'[i].status # dns_approval_queue[i].status =>
                    /\ dns_approval_queue[i].status = "pending"
                    /\ dns_approval_queue'[i].status \in {"approved", "rejected"}
                    /\ run'.op \in {"dns_approve", "dns_reject"}
        /\ \A i \in (Len(dns_approval_queue) + 1)..Len(dns_approval_queue') :
              dns_approval_queue'[i].status = "pending"
      ]_vars

\* an item was approved, and a later dns_approve or dns_reject naming it
\* was refused
C8_Witness ==
    /\ run.op \in {"dns_approve", "dns_reject"}
    /\ run.out.returned = "not_pending"
    /\ \E q \in Range(dns_approval_queue) :
          q.id = run.args.approval_id /\ q.status = "approved"

\* the change-log entries written for a Cloudflare call
EntriesFor(c) ==
    {i \in 1..Len(dns_change_log) :
        LET e == dns_change_log[i]
        IN  /\ e.domain = c.domain
            /\ e.record_type = c.type
            /\ e.record_name = c.name
            /\ e.action = c.op
            /\ e.change_type = c.by}

\* C9 (as the specification states it): every Cloudflare mutation that was
\* applied, by an auto-heal or by dns_approve, has an entry in the change
\* log, and there are as many entries as applied mutations.
C9_EveryMutationLogged ==
    LET applied == {i \in 1..Len(cf_calls) : cf_calls[i].ok}
    IN  /\ \A i \in applied : EntriesFor(cf_calls[i]) # {}
        /\ Cardinality(applied) = Len(dns_change_log)

\* the audit_log rows of the current run
RunRows == {r \in Range(dns_audit_log) : r.run_id = run.run_id}

\* C10 (as the specification states it): every finding a dns_audit run
\* produced, a healed one (with healed = True) included, is in the findings
\* array of the run's audit_log row.
C10_EveryFindingInAuditLog ==
    run.op = "dns_audit" =>
        \A r \in RunRows :
            \A f \in Range(run.out.produced) : f \in Range(r.findings)

\* the domains of the configs the current dns_audit run loaded
RunDomains == {AuditConfigs(run.args)[i].domain : i \in 1..Len(AuditConfigs(run.args))}

\* the indices of the list at which P-marked entries for a domain stand
FetchesOf(d) == {i \in 1..Len(run.out.fetched) : run.out.fetched[i].domain = d}
FindingsOf(d) ==
    {i \in 1..Len(run.out.all_findings) : run.out.all_findings[i].domain = d}

\* C11: in a dns_audit run, a domain whose record fetch failed has exactly
\* one finding, critical and of type cloudflare_error; no policy finding was
\* produced for it, nothing was created or queued for it, its records were
\* fetched once; and in a run that ends with its report every other domain
\* of the run was taken up: its records were fetched once and, when that
\* fetch succeeded, it was scanned, or it has its zone_not_found finding.
C11_FetchFailureIsolated ==
    run.op = "dns_audit" =>
        \A i \in 1..Len(run.out.fetched) :
            ~run.out.fetched[i].ok =>
                LET d == run.out.fetched[i].domain
                IN  /\ Cardinality(FindingsOf(d)) = 1
                    /\ \A j \in FindingsOf(d) :
                          /\ run.out.all_findings[j].type = "cloudflare_error"
                          /\ run.out.all_findings[j].severity = "critical"
                    /\ \A f \in Range(run.out.produced) : f.domain # d
                    /\ \A c \in RunHealCalls : c.domain # d
                    /\ \A q \in QueuedByAudit :
                          q.audit_run_id = run.run_id => q.domain # d
                    /\ \A s \in Range(run.out.scanned) : s.domain # d
                    /\ FetchesOf(d) = {i}
                    /\ run.out.returned = "report" =>
                          \A e \in RunDomains \ {d} :
                              \/ /\ Cardinality(FetchesOf(e)) = 1
                                 /\ \A k \in FetchesOf(e) :
                                       run.out.fetched[k].ok =>
                                          \E s \in Range(run.out.scanned) :
                                             s.domain = e
                              \/ \E j \in FindingsOf(e) :
                                    run.out.all_findings[j].type = "zone_not_found"

\* the first domain's fetch failed and the second domain was scanned and
\* found drifting
C11_Witness ==
    /\ run.op = "dns_audit"
    /\ Len(run.out.fetched) = 2
    /\ ~run.out.fetched[1].ok
    /\ run.out.fetched[2].ok
    /\ \E s \in Range(run.out.scanned) :
          s.domain = run.out.fetched[2].domain /\ s.status = "drift"


\* last_audit_status of a domain's dns_domain_config row
StoredStatus(config, d) == _get_domain_config(config, d)[1].last_audit_status

\* the run's state of a scanned domain is pass exactly if no policy
\* produced a finding for it, and drift otherwise
StatusIsVerdict(out, s) ==
    /\ s.status \in {"pass", "drift"}
    /\ s.status = "pass" <=> \A f \in Range(out.produced) : f.domain # s.domain

C13_DryRunWritesNothing ==
    [][ (IsCall("dns_heal") /\ Get(run'.args, "dry_run", TRUE)) =>
          /\ cf_calls' = cf_calls
          /\ dns_change_log' = dns_change_log
          /\ dns_approval_queue' = dns_approval_queue
          /\ \A h \in Range(run'.out.healed) :
                /\ h.dry_run
                /\ h.result.applied = FALSE
                /\ "would_create" \in DOMAIN h.result
                /\ "cloudflare_record_id" \notin DOMAIN h.result
                /\ h.result.would_create \in
                      Range(NamedRecords(PolicyById(h.policy)))
      ]_vars

\* a dns_heal call without the dry_run argument reported a finding with one
\* record and a finding with two records as healable
C13_Witness ==
    /\ run.op = "dns_heal"
    /\ "dry_run" \notin DOMAIN run.args
    /\ \E h, g \in Range(run.out.healed) :
          /\ Len(NamedRecords(PolicyById(h.policy))) = 1
          /\ Len(NamedRecords(PolicyById(g.policy))) = 2

\* the create calls the current run issued for a policy's finding on a domain
HealCallsFor(d, policy_id) ==
    {i \in 1..Len(cf_calls) :
        /\ cf_calls[i].by = "auto_heal"
        /\ cf_calls[i].run_id = run.run_id
        /\ cf_calls[i].domain = d
        /\ cf_calls[i].policy_id = policy_id}

\* C14 (as the specification states it): when dns_heal applies a heal
\* action (dry_run false) a create call is attempted for every record of
\* the action, whatever the outcome of the others, and the result reports
\* each outcome: applied if a record was created, an error if a create
\* failed.
C14_PerRecordOutcome ==
    (run.op = "dns_heal" /\ ~Get(run.args, "dry_run", TRUE)) =>
        \A h \in Range(run.out.healed) :
            LET issued == HealCallsFor(h.domain, h.policy)
            IN  /\ Cardinality(issued) = Len(NamedRecords(PolicyById(h.policy)))
                /\ (\E i \in issued : cf_calls[i].ok) => h.result.applied
                /\ (\E i \in issued : ~cf_calls[i].ok) => "error" \in DOMAIN h.result

\* C15 (as the tool description states it): after a dns_heal run that
\* applies changes (dry_run false), every finding the run reports under
\* "Requires approval" has a pending item in the approval queue for its
\* domain and policy.
C15_HealQueuesDangerous ==
    (run.op = "dns_heal" /\ ~Get(run.args, "dry_run", TRUE)) =>
        \A s \in Range(run.out.skipped_approval) :
            \E q \in Range(dns_approval_queue) :
                /\ q.status = "pending"
                /\ q.domain = s.domain
                /\ q.policy_id = s.policy


(***************************************************************************)
(* _check_record_policy as a function of its arguments: a policy of every  *)
(* rule type and rule shape, with and without auto_heal and heal_action,   *)
(* against every list of up to MaxLive live records.                       *)
(***************************************************************************)
\* live records in the list given to _check_record_policy
MaxLive == 2

CheckRules ==
    { [type |-> "TXT", name |-> Chars("@"), content_contains_any |-> <<Chars("i:g")>>],
      [type |-> "TXT", name |-> Chars("@"), content_contains |-> Chars("i:g")],
      [type |-> "TXT", name |-> Chars("@"), content |-> Chars("v=s i:g")],
      [type |-> "TXT", name |-> Chars("_dmarc"), content_startswith |-> Chars("v=D")],
      [type |-> "A", name |-> Chars("www"), proxied |-> TRUE],
      [type |-> "MX", name |-> Chars("@")],
      [name |-> Chars("www")],
      [type |-> "A"],
      EmptyDict }

\* records as list_dns_records returns them: full names, TXT content plain,
\* quoted, or quoted in segments
CheckRecords ==
    { [type |-> "TXT", name |-> Chars(D_cortex), content |-> Chars("v=s i:g")],
      [type |-> "TXT", name |-> Chars(D_cortex),
       content |-> <<Quote>> \o Chars("v=s i:s") \o <<Quote>>],
      [type |-> "TXT", name |-> Chars(D_cortex),
       content |-> <<Quote, "v", "=", "s", " ">> \o QSQ \o Chars("i:g") \o <<Quote>>],
      [type |-> "TXT", name |-> Chars("_dmarc") \o Chars(".") \o Chars(D_cortex),
       content |-> Chars("v=D1")],
      [type |-> "A", name |-> Chars("www") \o Chars(".") \o Chars(D_cortex),
       content |-> Chars("."), proxied |-> TRUE],
      [type |-> "A", name |-> Chars("www") \o Chars(".") \o Chars(D_cortex),
       content |-> Chars("."), proxied |-> FALSE],
      [type |-> "A", name |-> Chars(D_cortex), content |-> Chars(".")],
      [type |-> "MX", name |-> Chars(D_cortex), content |-> Chars("gw")] }

CheckRuleTypes ==
    {"record_required", "record_forbidden", "record_value_match", "record_count"}

CheckPolicies ==
    LET bare == {[id |-> "p", severity |-> "warning", rule_type |-> t, rule |-> r] :
                    t \in CheckRuleTypes, r \in CheckRules}
        flagged == bare \cup {p @@ [auto_heal |-> b] : p \in bare, b \in BOOLEAN}
    IN  flagged \cup {p @@ [heal_action |-> [action |-> "add", record |-> R_spf]] :
                        p \in flagged}

InitCheck ==
    /\ dns_domain_config = InitDomainConfig
    /\ dns_approval_queue = InitQueue
    /\ dns_change_log = <<>>
    /\ dns_audit_log = <<>>
    /\ dns_snapshots = <<>>
    /\ session_handoff = <<>>
    /\ session_handoff_history = <<>>
    /\ OtherInit
    /\ cf_calls = <<>>
    /\ run = [op |-> "none"]
    /\ calls = 0
    /\ fn_in \in {[policy |-> p, live_records |-> l] :
                    p \in CheckPolicies, l \in ListsUpTo(CheckRecords, MaxLive)}
    /\ fn_out = None

CallCheck ==
    /\ fn_out = None
    /\ fn_out' = [returned |-> _check_record_policy(fn_in.policy, fn_in.live_records)]
    /\ UNCHANGED <<dns_domain_config, dns_approval_queue, dns_change_log,
                   dns_audit_log, dns_snapshots, handoff_vars, other_vars, cf_calls, run, calls,
                   fn_in>>

SpecCheck == InitCheck /\ [][CallCheck]_vars

\* _check_record_policy has been applied to a policy of this rule type
Checked(rule_type) ==
    /\ fn_out # None
    /\ "returned" \in DOMAIN fn_out
    /\ fn_in.policy.rule_type = rule_type

\* The rule predicate, one clause per key of the rule: type equality, name
\* containment with the apex heuristic, content equality, substring, prefix
\* and any-of on the plain TXT value, proxied equality.
ClauseHolds(k, r, rule) ==
    LET name == Lower(Get(r, "name", <<>>))
        plain == _normalize_content(r)
    IN  CASE k = "type" -> Upper(Get(r, "type", "")) = Upper(rule.type)
          [] k = "name" -> IF Lower(rule.name) = Chars("@")
                           THEN CountDots(name) <= 1
                           ELSE Contains(Lower(rule.name), name)
          [] k = "content" -> plain = rule.content
          [] k = "content_contains" -> Contains(rule.content_contains, plain)
          [] k = "content_startswith" -> StartsWith(plain, rule.content_startswith)
          [] k = "content_contains_any" ->
                \E s \in Range(rule.content_contains_any) : Contains(s, plain)
          [] k = "proxied" -> "proxied" \in DOMAIN r /\ r.proxied = rule.proxied
          [] OTHER -> TRUE
RuleHolds(r, rule) == \A k \in DOMAIN rule : ClauseHolds(k, r, rule)

PolicyAutoHeal(policy) == Get(policy, "auto_heal", FALSE)
PolicyHealAction(policy) == Get(policy, "heal_action", None)

\* C16: for a record_required policy _check_record_policy returns None if
\* and only if at least one live record satisfies the rule predicate;
\* otherwise it returns a finding of type missing_record whose actual is
\* None and whose auto_heal and heal_action are the policy's.
C16_RequiredPassesIffMatch ==
    Checked("record_required") =>
        LET out == fn_out.returned
            rule == fn_in.policy.rule
        IN  /\ out = None <=> \E r \in Range(fn_in.live_records) : RuleHolds(r, rule)
            /\ out # None =>
                /\ out.type = "missing_record"
                /\ out.actual = None
                /\ out.auto_heal = PolicyAutoHeal(fn_in.policy)
                /\ out.heal_action = PolicyHealAction(fn_in.policy)

\* a required policy with a heal action fails against records of which one
\* has the rule's type and name but not its proxied flag
C16_Witness ==
    /\ Checked("record_required")
    /\ fn_out.returned # None
    /\ "heal_action" \in DOMAIN fn_in.policy
    /\ "proxied" \in DOMAIN fn_in.policy.rule
    /\ \E r \in Range(fn_in.live_records) :
          /\ r.type = "A"
          /\ "proxied" \in DOMAIN r
          /\ ~r.proxied


\* C17: for a record_forbidden policy _check_record_policy returns None if
\* and only if no live record satisfies the rule predicate; otherwise the
\* finding has auto_heal False and heal_action None whatever the policy
\* says, so dns_audit takes neither its heal branch nor its approval branch
\* for it, on either domain and with fix_safe set.
C17_ForbiddenNeverHealable ==
    Checked("record_forbidden") =>
        LET out == fn_out.returned
            rule == fn_in.policy.rule
        IN  /\ out = None <=> ~\E r \in Range(fn_in.live_records) : RuleHolds(r, rule)
            /\ out # None =>
                /\ out.auto_heal = FALSE
                /\ out.heal_action = None
                /\ \A d \in {D_cortex, D_group} :
                      /\ ~AuditHeals(TRUE, out, d)
                      /\ ~AuditQueues(out, d)

\* a forbidden policy that asks for auto_heal and carries a heal action
\* meets a live record that matches its rule
C17_Witness ==
    /\ Checked("record_forbidden")
    /\ fn_out.returned # None
    /\ fn_out.returned.type = "forbidden_record_present"
    /\ PolicyAutoHeal(fn_in.policy)
    /\ PolicyHealAction(fn_in.policy) # None


\* the live records a record_value_match rule is about: those of the rule's
\* type and name (an absent key is the empty string)
Located(r, rule) ==
    /\ Upper(Get(r, "type", "")) = Upper(Get(rule, "type", ""))
    /\ ClauseHolds("name", r, [name |-> Get(rule, "name", <<>>)])

\* the value predicate: the clauses of the rule other than type and name
ValueHolds(r, rule) ==
    \A k \in DOMAIN rule \ {"type", "name"} : ClauseHolds(k, r, rule)

\* C18: for a record_value_match policy, when no live record has the
\* rule's type and name the result is a record_value_mismatch finding with
\* actual None; when some have, the result is None if and only if one of
\* them satisfies the value predicate, and otherwise a
\* record_value_mismatch finding whose actual is one of the located records.
C18_ValueMatchOnLocated ==
    Checked("record_value_match") =>
        LET out == fn_out.returned
            rule == fn_in.policy.rule
            located == {r \in Range(fn_in.live_records) : Located(r, rule)}
        IN  IF located = {}
            THEN /\ out # None
                 /\ out.type = "record_value_mismatch"
                 /\ out.actual = None
            ELSE /\ out = None <=> \E r \in located : ValueHolds(r, rule)
                 /\ out # None =>
                      /\ out.type = "record_value_mismatch"
                      /\ out.actual \in located

\* the SPF example: a content_contains_any rule at the apex, a quoted TXT
\* record at the apex that names another sender, and the finding's actual
\* is that record
C18_Witness ==
    /\ Checked("record_value_match")
    /\ "content_contains_any" \in DOMAIN fn_in.policy.rule
    /\ fn_out.returned # None
    /\ fn_out.returned.actual # None
    /\ fn_out.returned.actual.content = <<Quote>> \o Chars("v=s i:s") \o <<Quote>>


(***************************************************************************)
(* dns_snapshot and dns_view_snapshot.                                     *)
(*   A dns_snapshots row is [id, domain, records, record_count, taken_at]; *)
(*   id and taken_at are given by the table on insert.  records is a JSON  *)
(*   array of objects of strings and booleans, which the column stores and *)
(*   returns element by element in the order given.                        *)
(***************************************************************************)
\* the table's clock: a row's taken_at is later than that of every row
\* inserted before it
NextTakenAt(snapshots) ==
    IF snapshots = <<>> THEN 1 ELSE snapshots[Len(snapshots)].taken_at + 1

\* the locals of _handle_dns_snapshot: the two tables it writes, its
\* results, and the record lists it fetched and inserted
SnapshotLocals ==
    [snapshots |-> dns_snapshots, config |-> dns_domain_config,
     results |-> <<>>, saved |-> <<>>]

SnapshotError(loc, domain) ==
    [loc EXCEPT !.results = Append(@, [domain |-> domain, status |-> "error"])]

\* _save_snapshot; returns the locals with raised set when a statement raised
_save_snapshot(loc, domain, zone_id, records, k, F) ==
    IF <<"insert_snapshot", k>> \in F
    THEN Set(loc, "raised", TRUE)
    ELSE LET row == [id |-> Len(loc.snapshots) + 1, domain |-> domain,
                     records |-> records, record_count |-> Len(records),
                     taken_at |-> NextTakenAt(loc.snapshots)]
             inserted == [loc EXCEPT !.snapshots = Append(@, row),
                                     !.saved = Append(@, [domain |-> domain,
                                                          records |-> records])]
         IN  IF zone_id # "" /\ <<"update_zone_id", k>> \in F
             THEN Set(inserted, "raised", TRUE)
             ELSE Set(Set([inserted EXCEPT !.config =
                                UpdateConfig(@, domain, "cloudflare_zone_id", zone_id)],
                          "raised", FALSE),
                      "snapshot_id", row.id)

\* lines 675-690, after list_dns_records returned
SnapshotSaved(loc, after, domain, zone_id, records) ==
    IF after.raised
    THEN SnapshotError([loc EXCEPT !.snapshots = after.snapshots,
                                   !.saved = after.saved], domain)
    ELSE [loc EXCEPT !.snapshots = after.snapshots,
                     !.saved = after.saved,
                     !.config = after.config,
                     !.results = Append(@, [domain |-> domain, status |-> "ok",
                                            record_count |-> Len(records),
                                            snapshot_id |-> after.snapshot_id,
                                            zone_id |-> zone_id])]

SnapshotZone(loc, domain, zone_id, k, live, F) ==
    IF zone_id = "" THEN SnapshotError(loc, domain)
    ELSE IF <<"list_dns_records", k>> \in F THEN SnapshotError(loc, domain)
    ELSE SnapshotSaved(loc,
            _save_snapshot(loc, domain, zone_id, LiveRecords(domain, live[k]), k, F),
            domain, zone_id, LiveRecords(domain, live[k]))

RECURSIVE SnapshotDomains(_, _, _, _, _)
SnapshotDomains(loc, configs, k, live, F) ==
    IF k > Len(configs) THEN loc
    ELSE SnapshotDomains(
            SnapshotZone(loc, configs[k].domain,
                         IF <<"zone_missing", k>> \in F
                         THEN Get(configs[k], "cloudflare_zone_id", "")
                         ELSE ZoneIdOf(configs[k].domain),
                         k, live, F),
            configs, k + 1, live, F)

SnapshotRun(args, configs, live, F) ==
    IF args.domain # "" /\ Len(configs) = 0
    THEN Set(SnapshotLocals, "returned", "not_found")
    ELSE IF <<"list_zones", 1>> \in F
    THEN Set(SnapshotLocals, "returned", "cloudflare_failed")
    ELSE Set(SnapshotDomains(SnapshotLocals, configs, 1, live, F), "returned", "report")

_handle_dns_snapshot(args, live, F) ==
    SnapshotRun(args,
                IF args.domain # "" THEN _get_domain_config(dns_domain_config, args.domain)
                ELSE dns_domain_config,
                live, F)

\* .eq("domain", domain).order("taken_at", desc=True).limit(1), ascending
\* instead
EarliestSnapshot(snapshots, domain) ==
    LET Of(row) == row.domain = domain
        rows == SelectSeq(snapshots, Of)
    IN  IF rows = <<>> THEN <<>>
        ELSE <<CHOOSE r \in Range(rows) : \A q \in Range(rows) : q.taken_at >= r.taken_at>>

\* .eq("domain", domain).order("taken_at", desc=True).limit(1)
LatestSnapshot(snapshots, domain) ==
    LET Of(row) == row.domain = domain
        rows == SelectSeq(snapshots, Of)
    IN  IF rows = <<>> THEN <<>>
        ELSE <<CHOOSE r \in Range(rows) : \A q \in Range(rows) : q.taken_at <= r.taken_at>>

_handle_dns_view_snapshot(args) ==
    LET rows == LatestSnapshot(dns_snapshots, args.domain)
    IN  IF rows = <<>> THEN [returned |-> "no_snapshot"]
        ELSE [returned |-> "json",
              json |-> [domain |-> args.domain,
                        snapshot_id |-> rows[1].id,
                        taken_at |-> rows[1].taken_at,
                        record_count |-> rows[1].record_count,
                        records |-> rows[1].records]]

SnapshotArgs == {[domain |-> d] : d \in {"", D_cortex, D_group, "nodomain.example"}}
ViewArgs == {[domain |-> d] : d \in {D_cortex, D_group, "nodomain.example"}}
SnapshotFaults == FaultsOf({"list_zones", "zone_missing", "list_dns_records",
                            "insert_snapshot", "update_zone_id"})

DnsSnapshot ==
    /\ calls < MaxCalls + 1
    /\ \E args \in SnapshotArgs, live \in [1..2 -> LiveChoices], F \in SnapshotFaults :
         run' = [op |-> "dns_snapshot", args |-> args,
                 out |-> _handle_dns_snapshot(args, live, F)]
    /\ dns_snapshots' = run'.out.snapshots
    /\ dns_domain_config' = run'.out.config
    /\ calls' = calls + 1
    /\ UNCHANGED <<dns_approval_queue, dns_change_log, dns_audit_log, cf_calls,
                   handoff_vars, other_vars, fn_in, fn_out>>

\* prev is the call that came immediately before
DnsViewSnapshot ==
    /\ calls < MaxCalls + 1
    /\ \E args \in ViewArgs :
         run' = [op |-> "dns_view_snapshot", args |-> args, prev |-> run,
                 out |-> _handle_dns_view_snapshot(args)]
    /\ calls' = calls + 1
    /\ UNCHANGED <<dns_domain_config, dns_approval_queue, dns_change_log,
                   dns_audit_log, dns_snapshots, handoff_vars, other_vars, cf_calls, fn_in, fn_out>>

\* snapshots taken before the first call: none, or one of omcortex.ai's
\* drifting zone
SeedSnapshots ==
    << [id |-> 1, domain |-> D_cortex, records |-> LiveRecords(D_cortex, 2),
        record_count |-> Len(LiveRecords(D_cortex, 2)), taken_at |-> 1] >>

InitSnapshot ==
    /\ dns_domain_config = InitDomainConfig
    /\ dns_approval_queue = InitQueue
    /\ dns_change_log = <<>>
    /\ dns_audit_log = <<>>
    /\ dns_snapshots \in {<<>>, SeedSnapshots}
    /\ session_handoff = <<>>
    /\ session_handoff_history = <<>>
    /\ OtherInit
    /\ cf_calls = <<>>
    /\ run = [op |-> "none"]
    /\ calls = 0
    /\ fn_in = None
    /\ fn_out = None

NextSnapshot == DnsSnapshot \/ DnsViewSnapshot

SpecSnapshot == InitSnapshot /\ [][NextSnapshot]_vars

\* C19: when dns_view_snapshot for a domain comes immediately after a
\* dns_snapshot that fetched and stored that domain's records, it returns
\* the list that was fetched: the same records in the same order, with
\* record_count equal to its length, whatever rows the table held before.
C19_ViewReturnsFetched ==
    (run.op = "dns_view_snapshot" /\ run.prev.op = "dns_snapshot") =>
        \A f \in Range(run.prev.out.saved) :
            f.domain = run.args.domain =>
                /\ run.out.returned = "json"
                /\ run.out.json.records = f.records
                /\ run.out.json.record_count = Len(f.records)

\* a snapshot of a non-empty zone is viewed while the table also holds an
\* earlier snapshot of the same domain with other records
C19_Witness ==
    /\ run.op = "dns_view_snapshot"
    /\ run.prev.op = "dns_snapshot"
    /\ \E f \in Range(run.prev.out.saved) :
          /\ f.domain = run.args.domain
          /\ f.records # <<>>
          /\ \E row \in Range(dns_snapshots) :
                /\ row.domain = f.domain
                /\ row.records # f.records


(***************************************************************************)
(* save_session_handoff: the tool handler and supabase_client's function.  *)
(*   session_handoff holds rows [id, content, created_by, interface,       *)
(*   updated_at]; session_handoff_history rows [content, created_by,       *)
(*   interface, session_date].  The clock is the number of the call.       *)
(***************************************************************************)
\* client.table("session_handoff").select("*").eq("id", 1)
HandoffRow(table) == LET IsOne(row) == row.id = 1 IN SelectSeq(table, IsOne)

\* client.table("session_handoff").upsert(handoff): the row with the same
\* id is replaced, or the row is added
Upsert(table, handoff) ==
    IF \E i \in 1..Len(table) : table[i].id = handoff.id
    THEN [i \in 1..Len(table) |->
            IF table[i].id = handoff.id THEN handoff ELSE table[i]]
    ELSE Append(table, handoff)

\* the inner try block: the archive step; returns the history table
Archive(checkpoint, F) ==
    IF checkpoint \/ <<"select_handoff", 1>> \in F \/ <<"insert_history", 1>> \in F
    THEN session_handoff_history
    ELSE LET existing == HandoffRow(session_handoff)
         IN  IF existing = <<>> THEN session_handoff_history
             ELSE Append(session_handoff_history,
                         [content |-> existing[1].content,
                          created_by |-> existing[1].created_by,
                          interface |-> existing[1].interface,
                          session_date |-> existing[1].updated_at])

\* supabase_client.save_session_handoff; returns both tables and whether it
\* raised
save_session_handoff(content, created_by, interface, checkpoint, now, F) ==
    IF <<"upsert_handoff", 1>> \in F
    THEN [handoff |-> session_handoff, history |-> Archive(checkpoint, F),
          raised |-> TRUE]
    ELSE [handoff |-> Upsert(session_handoff,
                             [id |-> 1, content |-> content, created_by |-> created_by,
                              interface |-> interface, updated_at |-> now]),
          history |-> Archive(checkpoint, F),
          raised |-> FALSE]

\* the save_session_handoff branch of the tool handler
HandoffSaved(args, saved) ==
    [handoff |-> saved.handoff, history |-> saved.history,
     returned |-> IF saved.raised THEN "error"
                  ELSE IF Get(args, "checkpoint", FALSE) THEN "checkpoint_saved"
                  ELSE "saved_and_archived"]

HandleSaveSessionHandoff(args, now, F) ==
    IF Get(args, "content", "") = ""
    THEN [handoff |-> session_handoff, history |-> session_handoff_history,
          returned |-> "content_required"]
    ELSE IF <<"supabase_offline", 1>> \in F
    THEN [handoff |-> session_handoff, history |-> session_handoff_history,
          returned |-> "offline"]
    ELSE HandoffSaved(args,
            save_session_handoff(args.content, Get(args, "person", "Unknown"),
                                 Get(args, "interface", "unknown"),
                                 Get(args, "checkpoint", FALSE), now, F))

HandoffArgs ==
    LET base == {[person |-> "Nishad", interface |-> "code", content |-> c] :
                    c \in {"", "notes A", "notes B"}}
    IN  base \cup {a @@ [checkpoint |-> b] : a \in base, b \in BOOLEAN}
HandoffFaults == FaultsOf({"supabase_offline", "select_handoff", "insert_history",
                           "upsert_handoff"})

SaveSessionHandoff ==
    /\ calls < MaxCalls + 1
    /\ \E args \in HandoffArgs, F \in HandoffFaults :
         run' = [op |-> "save_session_handoff", args |-> args, F |-> F,
                 out |-> HandleSaveSessionHandoff(args, calls + 1, F)]
    /\ session_handoff' = run'.out.handoff
    /\ session_handoff_history' = run'.out.history
    /\ calls' = calls + 1
    /\ UNCHANGED <<dns_domain_config, dns_approval_queue, dns_change_log,
                   dns_audit_log, dns_snapshots, other_vars, cf_calls, fn_in, fn_out>>

SpecHandoff == Init /\ [][SaveSessionHandoff]_vars


\* the history row that archives a handoff row
ArchiveOf(old) ==
    [content |-> old.content, created_by |-> old.created_by,
     interface |-> old.interface, session_date |-> old.updated_at]

\* the call stored its content as the current handoff
Overwrote(out) == out.returned \in {"checkpoint_saved", "saved_and_archived"}

\* C20: session_handoff never holds more than the row with id 1; a
\* checkpoint save leaves session_handoff_history as it was; a
\* non-checkpoint save that overwrote an existing handoff adds exactly one
\* history row, which holds the overwritten content.
C20_OverwriteArchivesOnce ==
    [][IsCall("save_session_handoff") =>
          LET old == HandoffRow(session_handoff)
              checkpoint == Get(run'.args, "checkpoint", FALSE)
          IN  /\ Len(session_handoff') <= 1
              /\ \A i \in 1..Len(session_handoff') : session_handoff'[i].id = 1
              /\ checkpoint => session_handoff_history' = session_handoff_history
              /\ (~checkpoint /\ old # <<>> /\ Overwrote(run'.out)) =>
                    session_handoff_history' =
                        Append(session_handoff_history, ArchiveOf(old[1]))]_vars


(***************************************************************************)
(* get_next_task_id and add_task.                                          *)
(*   A task id is the text "TASK-" followed by digits; the model keeps the *)
(*   digits, as a sequence of 0..9.  Rows of tasks are [id, description].  *)
(***************************************************************************)
\* str(n): the decimal digits of a natural number
RECURSIVE DigitsOf(_)
DigitsOf(n) == IF n < 10 THEN <<n>> ELSE Append(DigitsOf(n \div 10), n % 10)

\* f"{n:03d}": at least three digits, zero-padded
Format03d(n) ==
    LET d == DigitsOf(n)
    IN  IF Len(d) >= 3 THEN d ELSE [i \in 1..(3 - Len(d)) |-> 0] \o d

\* int(digits)
RECURSIVE IdNumber(_)
IdNumber(d) ==
    IF Len(d) = 0 THEN 0 ELSE 10 * IdNumber(SubSeq(d, 1, Len(d) - 1)) + d[Len(d)]

\* text order of two ids with the same prefix: a < b
RECURSIVE TextLess(_, _)
TextLess(a, b) ==
    IF Len(b) = 0 THEN FALSE
    ELSE IF Len(a) = 0 THEN TRUE
    ELSE IF a[1] # b[1] THEN a[1] < b[1]
    ELSE TextLess(Tail(a), Tail(b))

\* .order("id", desc=True).limit(1): the greatest id in text order among
\* rows lo..hi (the halves are searched apart to keep the evaluation flat)
RECURSIVE LastIdIn(_, _, _)
LastIdIn(table, lo, hi) ==
    IF lo = hi THEN table[lo].id
    ELSE LET mid == (lo + hi) \div 2
             a == LastIdIn(table, lo, mid)
             b == LastIdIn(table, mid + 1, hi)
         IN  IF TextLess(a, b) THEN b ELSE a

get_next_task_id(table, F) ==
    IF <<"select_tasks", 1>> \in F \/ table = <<>> THEN Format03d(1)
    ELSE Format03d(IdNumber(LastIdIn(table, 1, Len(table))) + 1)

\* the add_task branch of the tool handler, with supabase_client.add_task
HandleAddTask(args, F) ==
    LET new_id == get_next_task_id(tasks, F)
        new_task == [id |-> new_id, description |-> args.description]
    IN  IF <<"insert_task", 1>> \in F
        THEN [tasks |-> tasks, new_id |-> new_id, returned |-> "raised"]
        ELSE [tasks |-> Append(tasks, new_task), new_id |-> new_id,
              returned |-> "created"]

\* the tasks table after n add_task calls that all went through
TasksAfter(n) == [i \in 1..n |-> [id |-> Format03d(i), description |-> "seed"]]
TaskCounts == {0, 1, 2, 9, 10, 99, 100, 997, 998, 999}

TaskArgs == {[description |-> d] : d \in {"write docs", "fix bug"}}
TaskFaults == FaultsOf({"select_tasks", "insert_task"})

AddTask ==
    /\ calls < MaxCalls + 1
    /\ \E args \in TaskArgs, F \in TaskFaults :
         run' = [op |-> "add_task", args |-> args, F |-> F,
                 out |-> HandleAddTask(args, F)]
    /\ tasks' = run'.out.tasks
    /\ calls' = calls + 1
    /\ UNCHANGED <<dns_domain_config, dns_approval_queue, dns_change_log,
                   dns_audit_log, dns_snapshots, handoff_vars, files, clients, procs,
                   cf_calls, fn_in, fn_out>>

InitTasks ==
    /\ dns_domain_config = InitDomainConfig
    /\ dns_approval_queue = InitQueue
    /\ dns_change_log = <<>>
    /\ dns_audit_log = <<>>
    /\ dns_snapshots = <<>>
    /\ session_handoff = <<>>
    /\ session_handoff_history = <<>>
    /\ tasks \in {TasksAfter(n) : n \in TaskCounts}
    /\ files = <<>>
    /\ clients = [quorum |-> NoClient, cortex |-> NoClient]
    /\ procs = [p \in 1..MaxProcs |-> [pc |-> "idle"]]
    /\ cf_calls = <<>>
    /\ run = [op |-> "none"]
    /\ calls = 0
    /\ fn_in = None
    /\ fn_out = None

SpecTasks == InitTasks /\ [][AddTask]_vars

TaskIds(table) == {table[i].id : i \in 1..Len(table)}

\* C21: the id get_next_task_id gives to an add_task call is not the id of
\* a task already in the table, and the table never holds two tasks with
\* the same id.
C21_NextTaskIdIsFresh ==
    [][IsCall("add_task") =>
          /\ run'.out.new_id \notin TaskIds(tasks)
          /\ Cardinality(TaskIds(tasks')) = Len(tasks')]_vars


(***************************************************************************)
(* LocalStorage.save_json and load_json.                                   *)
(*   A JSON value is a tagged record: [t |-> "str", v], [t |-> "int", v],  *)
(*   [t |-> "bool", v], [t |-> "null"], [t |-> "list", v |-> values] or    *)
(*   [t |-> "obj", v |-> <<[k, v], ...>>] with distinct keys.  A file is   *)
(*   the sequence of JSON tokens json.dump writes (indentation is white    *)
(*   space between tokens).                                                *)
(***************************************************************************)
Tok(x) == [tok |-> x]

\* json.dump(data, f, indent=2): the tokens of a value
RECURSIVE DumpValue(_)
RECURSIVE DumpItems(_, _)
RECURSIVE DumpPairs(_, _)
DumpValue(x) ==
    CASE x.t = "str" -> <<[tok |-> "str", s |-> x.v]>>
      [] x.t = "int" -> <<[tok |-> "int", n |-> x.v]>>
      [] x.t = "bool" -> <<Tok(IF x.v THEN "true" ELSE "false")>>
      [] x.t = "null" -> <<Tok("null")>>
      [] x.t = "list" -> <<Tok("[")>> \o DumpItems(x.v, 1) \o <<Tok("]")>>
      [] x.t = "obj" -> <<Tok("{")>> \o DumpPairs(x.v, 1) \o <<Tok("}")>>
DumpItems(items, i) ==
    IF i > Len(items) THEN <<>>
    ELSE (IF i > 1 THEN <<Tok(",")>> ELSE <<>>)
         \o DumpValue(items[i]) \o DumpItems(items, i + 1)
DumpPairs(pairs, i) ==
    IF i > Len(pairs) THEN <<>>
    ELSE (IF i > 1 THEN <<Tok(",")>> ELSE <<>>)
         \o <<[tok |-> "str", s |-> pairs[i].k], Tok(":")>>
         \o DumpValue(pairs[i].v) \o DumpPairs(pairs, i + 1)

\* json.load(f): the value that starts at token i, and the position after it
RECURSIVE ParseValue(_, _)
RECURSIVE ParseItems(_, _, _)
RECURSIVE ParsePairs(_, _, _)
ParseValue(toks, i) ==
    LET tk == toks[i]
    IN  CASE tk.tok = "str" -> [v |-> [t |-> "str", v |-> tk.s], next |-> i + 1]
          [] tk.tok = "int" -> [v |-> [t |-> "int", v |-> tk.n], next |-> i + 1]
          [] tk.tok = "true" -> [v |-> [t |-> "bool", v |-> TRUE], next |-> i + 1]
          [] tk.tok = "false" -> [v |-> [t |-> "bool", v |-> FALSE], next |-> i + 1]
          [] tk.tok = "null" -> [v |-> [t |-> "null"], next |-> i + 1]
          [] tk.tok = "[" -> ParseItems(toks, i + 1, <<>>)
          [] tk.tok = "{" -> ParsePairs(toks, i + 1, <<>>)
ParseItems(toks, i, acc) ==
    IF toks[i].tok = "]" THEN [v |-> [t |-> "list", v |-> acc], next |-> i + 1]
    ELSE IF toks[i].tok = "," THEN ParseItems(toks, i + 1, acc)
    ELSE ParseItems(toks, ParseValue(toks, i).next, Append(acc, ParseValue(toks, i).v))
\* a key that comes again replaces the value kept for it
ParsePairs(toks, i, acc) ==
    IF toks[i].tok = "}" THEN [v |-> [t |-> "obj", v |-> acc], next |-> i + 1]
    ELSE IF toks[i].tok = "," THEN ParsePairs(toks, i + 1, acc)
    ELSE LET key == toks[i].s
             val == ParseValue(toks, i + 2)
             Other(pr) == pr.k # key
         IN  ParsePairs(toks, val.next,
                        IF \E j \in 1..Len(acc) : acc[j].k = key
                        THEN [j \in 1..Len(acc) |->
                                IF acc[j].k = key THEN [k |-> key, v |-> val.v]
                                ELSE acc[j]]
                        ELSE Append(acc, [k |-> key, v |-> val.v]))

EmptyObject == [t |-> "obj", v |-> <<>>]

\* load_json that takes every file for missing
load_json_missing(filename) == EmptyObject

load_json(filename) ==
    IF filename \in DOMAIN files THEN ParseValue(files[filename], 1).v
    ELSE EmptyObject

\* the files after save_json: mode "w" truncates or creates the file
save_json(filename, data) ==
    [f \in DOMAIN files \cup {filename} |->
        IF f = filename THEN DumpValue(data) ELSE files[f]]

JsonScalars ==
    {[t |-> "str", v |-> "value"], [t |-> "str", v |-> ""], [t |-> "int", v |-> 42],
     [t |-> "bool", v |-> TRUE], [t |-> "null"]}
JsonObjects ==
    LET flat == {<<>>} \cup {<<[k |-> "key", v |-> x]>> : x \in JsonScalars}
                \cup {<<[k |-> "key", v |-> [t |-> "str", v |-> "value"]],
                        [k |-> "number", v |-> [t |-> "int", v |-> 42]]>>}
        values == {[t |-> "obj", v |-> o] : o \in flat}
                  \cup {[t |-> "list", v |-> l] : l \in ListsUpTo(JsonScalars, 1)}
                  \cup {[t |-> "list", v |-> <<[t |-> "int", v |-> 42],
                                              [t |-> "obj", v |-> <<>>]>>]}
    IN  {[t |-> "obj", v |-> o] : o \in flat}
        \cup {[t |-> "obj", v |-> <<[k |-> "number", v |-> x]>>] : x \in values}
FileNames == {"test.json", "sub/test.json"}

SaveJson ==
    /\ calls < MaxCalls + 1
    /\ \E name \in FileNames, data \in JsonObjects :
         /\ run' = [op |-> "save_json", args |-> [filename |-> name, data |-> data]]
         /\ files' = save_json(name, data)
    /\ calls' = calls + 1
    /\ UNCHANGED <<dns_domain_config, dns_approval_queue, dns_change_log,
                   dns_audit_log, dns_snapshots, handoff_vars, tasks, clients, procs,
                   cf_calls, fn_in, fn_out>>

\* prev is the call that came immediately before
LoadJson ==
    /\ calls < MaxCalls + 1
    /\ \E name \in FileNames :
         run' = [op |-> "load_json", args |-> [filename |-> name], prev |-> run,
                 out |-> load_json(name)]
    /\ calls' = calls + 1
    /\ UNCHANGED <<dns_domain_config, dns_approval_queue, dns_change_log,
                   dns_audit_log, dns_snapshots, handoff_vars, other_vars,
                   cf_calls, fn_in, fn_out>>

NextStorage == SaveJson \/ LoadJson

SpecStorage == Init /\ [][NextStorage]_vars

\* C22: load_json of a name, coming right after save_json of that name,
\* returns a value equal to the data saved, whatever was saved under the
\* name before.
C22_JsonRoundTrip ==
    (/\ run.op = "load_json"
     /\ run.prev.op = "save_json"
     /\ run.prev.args.filename = run.args.filename)
        => run.out = run.prev.args.data

\* a nested object is read back from a file in a subdirectory, as the
\* third call
C22_Witness ==
    /\ run.op = "load_json"
    /\ run.prev.op = "save_json"
    /\ run.prev.args.filename = "sub/test.json"
    /\ run.args.filename = "sub/test.json"
    /\ calls = 3
    /\ run.out = [t |-> "obj", v |-> <<[k |-> "number",
                    v |-> [t |-> "list", v |-> <<[t |-> "int", v |-> 42],
                                                 [t |-> "obj", v |-> <<>>]>>]]>>]


(***************************************************************************)
(* The nested helpers of _check_record_policy as functions of their        *)
(* arguments.                                                              *)
(***************************************************************************)
\* the state of a run that applies one function to one input
InitFn(inputs) ==
    /\ dns_domain_config = InitDomainConfig
    /\ dns_approval_queue = InitQueue
    /\ dns_change_log = <<>>
    /\ dns_audit_log = <<>>
    /\ dns_snapshots = <<>>
    /\ session_handoff = <<>>
    /\ session_handoff_history = <<>>
    /\ OtherInit
    /\ cf_calls = <<>>
    /\ run = [op |-> "none"]
    /\ calls = 0
    /\ fn_in \in inputs
    /\ fn_out = None

CallFn(result) ==
    /\ fn_out = None
    /\ fn_out' = result
    /\ UNCHANGED <<dns_domain_config, dns_approval_queue, dns_change_log,
                   dns_audit_log, dns_snapshots, handoff_vars, other_vars, cf_calls,
                   run, calls, fn_in>>

\* characters in a record's content
MaxContent == 5

ContentChars == {Quote, " ", "a"}
NormalizeInputs ==
    {[type |-> t, name |-> Chars("@"), content |-> c] :
        t \in {"TXT", "txt", "A"}, c \in ListsUpTo(ContentChars, MaxContent)}

InitNormalize == InitFn(NormalizeInputs)

\* _normalize_content applied to a record, and again to the record that
\* carries the result as its content
CallNormalize ==
    CallFn([once |-> _normalize_content(fn_in),
            twice |-> _normalize_content(
                        [fn_in EXCEPT !.content = _normalize_content(fn_in)])])

SpecNormalize == InitNormalize /\ [][CallNormalize]_vars

\* C23: normalising the content of a record a second time gives what the
\* first normalisation gave.
C23_NormalizeIdempotent ==
    (fn_out # None /\ "once" \in DOMAIN fn_out) => fn_out.twice = fn_out.once

\* a quoted TXT value that ends in a segment break came out as the plain
\* string
C23_Witness ==
    /\ fn_out # None
    /\ "once" \in DOMAIN fn_out
    /\ fn_in.type = "TXT"
    /\ fn_in.content = <<Quote, "a">> \o QSQ
    /\ fn_out.once = <<"a">>


\* characters in a live record's name; a rule name has one fewer
MaxName == 3

NameChars == {"a", "A", ".", "@"}
NameInputs ==
    {[rec_name |-> r, rule_name |-> q] :
        r \in ListsUpTo(NameChars, MaxName), q \in ListsUpTo(NameChars, MaxName - 1)}

InitName == InitFn(NameInputs)

CallName ==
    CallFn([matched |-> _rec_name_matches_rule(fn_in.rec_name, fn_in.rule_name)])

SpecName == InitName /\ [][CallName]_vars

\* C24: a rule name "@" matches the live names that are "@" or have at
\* most one dot; any other rule name matches the live names that contain
\* it, letter case aside.
C24_NameMatching ==
    (fn_out # None /\ "matched" \in DOMAIN fn_out) =>
        (fn_out.matched <=>
            IF fn_in.rule_name = <<"@">>
            THEN fn_in.rec_name = <<"@">> \/ CountDots(fn_in.rec_name) <= 1
            ELSE \E i \in 0..(Len(fn_in.rec_name) - Len(fn_in.rule_name)) :
                    \A j \in 1..Len(fn_in.rule_name) :
                        LowerChar(fn_in.rec_name[i + j]) = LowerChar(fn_in.rule_name[j]))

\* a rule name in upper case is found inside a live name in lower case
C24_Witness ==
    /\ fn_out # None
    /\ "matched" \in DOMAIN fn_out
    /\ fn_out.matched
    /\ fn_in.rule_name = <<"A">>
    /\ fn_in.rec_name = <<"a", ".", "a">>


(***************************************************************************)
(* _get_policies_for_domain as a function of the domain's config and the   *)
(* rows of dns_policies.                                                   *)
(***************************************************************************)
\* rows of dns_policies in the table given to _get_policies_for_domain
MaxPolicies == 2

ScopeTexts ==
    {Chars("global"),
     Chars("tier:") \o <<"3">>, Chars("tier:") \o <<"5">>,
     Chars("service:") \o Chars("gw"), Chars("service:") \o Chars("sel"),
     Chars("domain:") \o Chars(D_cortex), Chars("domain:") \o Chars(D_group),
     <<"z", "o", "n", "e", ":">> \o Chars("gw"),
     Chars("domain:"), <<"t", "i", "e", "r">>}
ScopePolicies ==
    {[id |-> "p", enabled |-> e, scope |-> sc] : e \in BOOLEAN, sc \in ScopeTexts}
ScopeConfigs ==
    {[domain |-> d, tier |-> t, services |-> sv] :
        d \in {D_cortex, D_group}, t \in {3, 5, 4},
        sv \in {{}, {Chars("gw")}, {Chars("gw"), Chars("sel")}}}
ScopeInputs ==
    {[config |-> c, policies |-> l] :
        c \in ScopeConfigs, l \in ListsUpTo(ScopePolicies, MaxPolicies)}

InitScope == InitFn(ScopeInputs)

CallScope ==
    CallFn([policies |-> _get_policies_for_domain(fn_in.config, fn_in.policies)])

SpecScope == InitScope /\ [][CallScope]_vars

\* str(tier) for the tiers of the model
TierText(t) == <<<<"0", "1", "2", "3", "4", "5", "6", "7", "8", "9">>[t + 1]>>

\* the scope names the domain: global, the domain's tier, one of its
\* services, or the domain itself
ScopeNames(scope, config) ==
    \/ scope = Chars("global")
    \/ scope = Chars("tier:") \o TierText(config.tier)
    \/ \E x \in config.services : scope = Chars("service:") \o x
    \/ scope = Chars("domain:") \o Chars(config.domain)

GetClient(m, config) ==
    IF m.client # 0 THEN m
    ELSE IF config THEN [client |-> m.built + 1, built |-> m.built + 1]
    ELSE m

\* reset_*_client
ResetClient(m) == [m EXCEPT !.client = 0]

\* the except branch of the probe, resetting on every error
AfterProbeErrorResetsAlways(m, env) ==
    IF GetClient(ResetClient(m), env.config_again).client = 0
    THEN [m |-> ResetClient(m), resets |-> 1, returned |-> "raised_reset_failed"]
    ELSE [m |-> GetClient(ResetClient(m), env.config_again), resets |-> 1,
          returned |-> "proceeds"]

\* the except branch of the probe
AfterProbeError(m, env) ==
    IF env.probe \in {"401", "invalid_api_key"}
    THEN IF GetClient(ResetClient(m), env.config_again).client = 0
         THEN [m |-> ResetClient(m), resets |-> 1, returned |-> "raised_reset_failed"]
         ELSE [m |-> GetClient(ResetClient(m), env.config_again), resets |-> 1,
               returned |-> "proceeds"]
    ELSE [m |-> m, resets |-> 0, returned |-> "raised_probe_error"]

\* _require_quorum / _require_cortex on the module's cache m; probed is the
\* client the probe query was sent with (0: no probe was sent)
RequireClient(m, env) ==
    LET m1 == GetClient(m, env.config)
    IN  IF m1.client = 0
        THEN [m |-> m1, resets |-> 0, probed |-> 0, returned |-> "raised_unavailable"]
        ELSE IF env.probe = "ok"
        THEN [m |-> m1, resets |-> 0, probed |-> m1.client, returned |-> "proceeds"]
        ELSE Set(AfterProbeError(m1, env), "probed", m1.client)

ClientEnvs ==
    {[config |-> c, probe |-> pr, config_again |-> c2] :
        c \in BOOLEAN, pr \in {"ok", "401", "invalid_api_key", "timeout"},
        c2 \in BOOLEAN}

RequireQuorum ==
    /\ calls < MaxCalls + 1
    /\ \E env \in ClientEnvs :
         run' = [op |-> "_require", module |-> "quorum", env |-> env,
                 out |-> RequireClient(clients.quorum, env)]
    /\ clients' = [clients EXCEPT !.quorum = run'.out.m]
    /\ calls' = calls + 1
    /\ UNCHANGED <<dns_domain_config, dns_approval_queue, dns_change_log,
                   dns_audit_log, dns_snapshots, handoff_vars, tasks, files, procs,
                   cf_calls, fn_in, fn_out>>

RequireCortex ==
    /\ calls < MaxCalls + 1
    /\ \E env \in ClientEnvs :
         run' = [op |-> "_require", module |-> "cortex", env |-> env,
                 out |-> RequireClient(clients.cortex, env)]
    /\ clients' = [clients EXCEPT !.cortex = run'.out.m]
    /\ calls' = calls + 1
    /\ UNCHANGED <<dns_domain_config, dns_approval_queue, dns_change_log,
                   dns_audit_log, dns_snapshots, handoff_vars, tasks, files, procs,
                   cf_calls, fn_in, fn_out>>

NextClients == RequireQuorum \/ RequireCortex

SpecClients == Init /\ [][NextClients]_vars

\* C26: in a _require_quorum or _require_cortex call whose probe fails
\* with a 401 or an invalid-key error the cached client is cleared once and
\* one new client is created at most: the call proceeds with the new
\* client if it could be created and raises, leaving no cached client,
\* otherwise.  When the probe fails with another error the call raises and
\* the cache holds the client that was probed.  When the probe succeeds
\* nothing is reset.  The other module's cache is never touched.
C26_ResetOnlyOn401 ==
    [][IsCall("_require") =>
          LET before == clients[run'.module]
              after == clients'[run'.module]
              out == run'.out
              env == run'.env
          IN  /\ \A other \in {"quorum", "cortex"} \ {run'.module} :
                    clients'[other] = clients[other]
              /\ out.probed = 0 =>
                    out.returned = "raised_unavailable" /\ after = before
              /\ (out.probed # 0 /\ env.probe \in {"401", "invalid_api_key"}) =>
                    /\ out.resets = 1
                    /\ IF env.config_again
                       THEN /\ out.returned = "proceeds"
                            /\ after.client # 0 /\ after.client # out.probed
                            /\ after.built = GetClient(before, env.config).built + 1
                       ELSE /\ out.returned = "raised_reset_failed"
                            /\ after.client = 0
                            /\ after.built = GetClient(before, env.config).built
              /\ (out.probed # 0 /\ env.probe = "timeout") =>
                    /\ out.returned = "raised_probe_error"
                    /\ out.resets = 0
                    /\ after.client = out.probed
              /\ (out.probed # 0 /\ env.probe = "ok") =>
                    /\ out.returned = "proceeds"
                    /\ out.resets = 0
                    /\ after.client = out.probed]_vars

\* a cached client met a 401, was replaced by a second client, and the
\* call went on
C26_Witness ==
    /\ run.op = "_require"
    /\ run.env.probe = "401"
    /\ run.out.probed = 1
    /\ run.out.returned = "proceeds"
    /\ clients[run.module].client = 2
    /\ calls >= 2


(***************************************************************************)
(* dns_approve and dns_reject calls in progress at the same time.          *)
(*   _handle_dns_approve is a coroutine: it reads the item and checks its  *)
(*   status, then awaits Cloudflare (get_zone_id, create/update/delete),   *)
(*   and other calls run while it waits.  What follows the await (log,     *)
(*   status update) runs without another await.  _handle_dns_reject has no *)
(*   await and runs in one piece.                                          *)
(***************************************************************************)
\* _handle_dns_approve up to its first await: lines 1129-1141
ApproveBegin(p) ==
    /\ procs[p].pc = "idle"
    /\ \E id \in ApprovalIds :
         LET rows == QueueItem(dns_approval_queue, id)
         IN  procs' = [procs EXCEPT ![p] =
                IF Len(rows) = 0
                THEN [pc |-> "done", op |-> "dns_approve", approval_id |-> id,
                      returned |-> "not_found"]
                ELSE IF ApproveNotPending(rows[1])
                THEN [pc |-> "done", op |-> "dns_approve", approval_id |-> id,
                      returned |-> "not_pending"]
                ELSE [pc |-> "awaiting", op |-> "dns_approve", approval_id |-> id,
                      item |-> rows[1]]]
    /\ UNCHANGED <<dns_domain_config, dns_approval_queue, dns_change_log,
                   dns_audit_log, dns_snapshots, handoff_vars, tasks, files, clients,
                   cf_calls, run, calls, fn_in, fn_out>>

\* the zone id of lines 1147-1154, for the item read before the await
ApproveZone(item, F) ==
    LET config == _get_domain_config(dns_domain_config, item.domain)
        stored == IF Len(config) > 0 THEN Get(config[1], "cloudflare_zone_id", "") ELSE ""
    IN  IF stored # "" THEN stored
        ELSE IF <<"get_zone_id", 1>> \in F THEN "" ELSE ZoneIdOf(item.domain)

\* the rest of the coroutine, lines 1147-1206, with the item it holds
ApproveRest(item, zone_id, F) ==
    IF zone_id = "" THEN [st |-> Store, returned |-> "no_zone"]
    ELSE ApproveApply(item, zone_id, "ok", Store, F)

ApproveResume(p) ==
    /\ procs[p].pc = "awaiting"
    /\ \E F \in ApproveFaults :
         LET out == ApproveRest(procs[p].item, ApproveZone(procs[p].item, F), F)
         IN  /\ procs' = [procs EXCEPT ![p] =
                            [pc |-> "done", op |-> "dns_approve",
                             approval_id |-> procs[p].approval_id,
                             returned |-> out.returned]]
             /\ Commit(out.st)
    /\ UNCHANGED <<dns_snapshots, handoff_vars, tasks, files, clients,
                   run, calls, fn_in, fn_out>>

RejectWhole(p) ==
    /\ procs[p].pc = "idle"
    /\ \E id \in ApprovalIds, F \in RejectFaults :
         LET out == _handle_dns_reject([approval_id |-> id, reason |-> "no"], F)
         IN  /\ procs' = [procs EXCEPT ![p] =
                            [pc |-> "done", op |-> "dns_reject", approval_id |-> id,
                             returned |-> out.returned]]
             /\ Commit(out.st)
    /\ UNCHANGED <<dns_snapshots, handoff_vars, tasks, files, clients,
                   run, calls, fn_in, fn_out>>

NextConcurrent ==
    \E p \in 1..MaxProcs : ApproveBegin(p) \/ ApproveResume(p) \/ RejectWhole(p)

SpecConcurrent == Init /\ [][NextConcurrent]_vars

\* the successful Cloudflare calls made for an approval item
AppliedFor(id) ==
    {i \in 1..Len(cf_calls) :
        /\ cf_calls[i].by = "approved"
        /\ cf_calls[i].approval_id = id
        /\ cf_calls[i].ok}

\* C27: whatever the order in which the steps of concurrent dns_approve
\* and dns_reject calls run, the change of an approval item is applied to
\* Cloudflare at most once, and not at all for an item whose status is
\* rejected.
C27_AppliedAtMostOnce ==
    \A i \in 1..Len(dns_approval_queue) :
        /\ Cardinality(AppliedFor(dns_approval_queue[i].id)) <= 1
        /\ dns_approval_queue[i].status = "rejected" =>
              AppliedFor(dns_approval_queue[i].id) = {}


\* the successful Cloudflare calls a step adds
AppliedByStep ==
    {i \in (Len(cf_calls) + 1)..Len(cf_calls') : cf_calls'[i].ok}

\* dns_approve could not apply the change: no zone id, unknown action,
\* no record id for an update or delete, or the Cloudflare call raised
CouldNotApply ==
    \/ run'.out.returned \in {"no_zone", "unknown_action", "no_record_id"}
    \/ /\ run'.out.returned = "failed"
       /\ Len(cf_calls') = Len(cf_calls) + 1
       /\ ~cf_calls'[Len(cf_calls')].ok

\* C28: when dns_approve cannot apply the change of a pending item (no
\* zone id, unknown action, no record id, Cloudflare call raising) the
\* item stays pending, no change-log entry is written and the handler
\* returns a text; and whenever the item is still pending after the call,
\* the call applied no change to Cloudflare.
C28_PendingMeansNotApplied ==
    [][ (IsCall("dns_approve") /\ Len(NamedItem) > 0
            /\ NamedItem[1].status = "pending") =>
          /\ CouldNotApply =>
                /\ QueueItem(dns_approval_queue', NamedItem[1].id)[1].status = "pending"
                /\ dns_change_log' = dns_change_log
                /\ ~run'.out.st.raised
          /\ QueueItem(dns_approval_queue', NamedItem[1].id)[1].status = "pending" =>
                AppliedByStep = {}
      ]_vars


\* every record of the policy's heal action has a successful create call
\* among the calls issued
AllCreated(issued, policy_id) ==
    /\ Cardinality(issued) = Len(NamedRecords(PolicyById(policy_id)))
    /\ \A i \in issued : cf_calls[i].ok

\* C29: a heal action whose result has applied = TRUE had every one of
\* its records created in Cloudflare, and one whose result has applied =
\* FALSE without dry run had none created; so a finding dns_audit marks
\* healed had all its prescribed records created.
C29_AppliedMeansAllCreated ==
    /\ (run.op = "dns_heal" /\ ~Get(run.args, "dry_run", TRUE)) =>
          \A h \in Range(run.out.healed) :
              LET issued == HealCallsFor(h.domain, h.policy)
              IN  /\ h.result.applied => AllCreated(issued, h.policy)
                  /\ ~h.result.applied => \A i \in issued : ~cf_calls[i].ok
    /\ run.op = "dns_audit" =>
          \A r \in Range(run.out.healed) :
              AllCreated(HealCallsFor(r.domain, r.finding), r.finding)


(***************************************************************************)
(* One dns_heal pass over a domain (the loop "for policy in policies"),    *)
(* for policy tables in which several policies prescribe a record of the   *)
(* same type and name.                                                     *)
(***************************************************************************)
\* policies on the TXT records of a zone: two with a single heal record for
\* _dmarc, one with a list of heal records, one on the apex
PassPolicy(id, rule, heal_action) ==
    [id |-> id, enabled |-> TRUE, scope |-> Chars("global"),
     rule_type |-> "record_required", severity |-> "warning", rule |-> rule,
     auto_heal |-> TRUE, heal_action |-> heal_action]

PassPolicies ==
    { PassPolicy("dmarc", [type |-> "TXT", name |-> Chars("_dmarc")],
                 [action |-> "add", record |-> R_dmarc]),
      PassPolicy("strict", [type |-> "TXT", name |-> Chars("_dmarc"),
                            content_startswith |-> Chars("v=D")],
                 [action |-> "upsert", record |-> R_dmarc]),
      PassPolicy("mail", [type |-> "TXT", name |-> Chars("_dmarc")],
                 [action |-> "add_if_missing", records |-> <<R_dmarc, R_spf>>]),
      PassPolicy("spf", [type |-> "TXT", name |-> Chars("@")],
                 [action |-> "add", record |-> R_spf]) }

\* dns_policies tables of two or three of them, in any order
PassTables ==
    {t \in (PassPolicies \X PassPolicies) : t[1] # t[2]}
    \cup {t \in (PassPolicies \X PassPolicies \X PassPolicies) :
             t[1] # t[2] /\ t[1] # t[3] /\ t[2] # t[3]}

\* the zone: empty, or holding a _dmarc record that is not a DMARC policy
PassLive ==
    { <<>>,
      <<[type |-> "TXT", name |-> Chars("_dmarc") \o Chars(".") \o Chars(D_cortex),
         content |-> Chars("v=s i:g")]>> }

\* lines 1057-1093 with the table's policies and the fetched records
RECURSIVE HealPass(_, _, _, _, _, _, _, _, _)
HealPass(loc, policies, i, live_records, domain, zone_id, dry_run, run_id, F) ==
    IF i > Len(policies) THEN loc
    ELSE LET finding == _check_record_policy(policies[i], live_records)
         IN  HealPass(
                IF finding = None THEN loc
                ELSE HealFinding(loc, policies[i], finding, domain, zone_id, dry_run,
                                 run_id, F),
                policies, i + 1, live_records, domain, zone_id, dry_run, run_id, F)

PassFaults == FaultsOf({"create_dns_record", "log_change"})

DnsHealPass ==
    /\ calls = 0
    /\ \E table \in PassTables, live \in PassLive, dry_run \in BOOLEAN, F \in PassFaults :
         run' = [op |-> "heal_pass",
                 args |-> [domain |-> D_cortex, dry_run |-> dry_run, table |-> table],
                 run_id |-> 1,
                 out |-> HealPass([st |-> Store, healed |-> <<>>,
                                   skipped_approval |-> <<>>, skipped_tier5 |-> <<>>,
                                   healed_records |-> {}, fetched |-> <<D_cortex>>],
                                  _get_policies_for_domain(
                                      _get_domain_config(dns_domain_config, D_cortex)[1],
                                      table),
                                  1, live, D_cortex, ZoneIdOf(D_cortex), dry_run, 1, F)]
    /\ Commit(run'.out.st)
    /\ calls' = 1
    /\ UNCHANGED <<dns_snapshots, handoff_vars, other_vars, fn_in, fn_out>>

SpecPass == Init /\ [][DnsHealPass]_vars

\* the (type, name) pairs the heal action of a healable entry prescribes
PrescribedKeys(h) ==
    LET policy == CHOOSE q \in Range(run.args.table) : q.id = h.policy
    IN  {<<r.type, r.name>> : r \in Range(NamedRecords(policy))}

\* the (type, name) pairs a healable entry created, or reported as
\* would-create in a dry run
CreatedKeys(h) ==
    IF h.dry_run
    THEN IF "would_create" \in DOMAIN h.result
         THEN {<<h.result.would_create.type, h.result.would_create.name>>}
         ELSE {}
    ELSE {<<cf_calls[i].type, cf_calls[i].name>> :
             i \in {j \in HealCallsFor(h.domain, h.policy) : cf_calls[j].ok}}

\* C30: within one dns_heal pass over a domain, once an entry created a
\* record of some type and name (or reported it as would-create), no later
\* entry of the pass is for a heal action that prescribes a record of that
\* type and name, so no second create call is made for it; for heal
\* actions with one record and with several.
C30_NoRepeatedHeal ==
    run.op = "heal_pass" =>
        \A a, b \in 1..Len(run.out.healed) :
            a < b => CreatedKeys(run.out.healed[a]) \cap
                        PrescribedKeys(run.out.healed[b]) = {}

=============================================================================
